---------------------------- MODULE Spec2Model ----------------------------
(***************************************************************************)
(* Form 3 -> Circular 29 converter (src/full_streamlit_app.py): the grid   *)
(* scanners, the record extractor, the metadata extractors, the recovery   *)
(* chain and the layout generator, as state machines over small grids.     *)
(*                                                                         *)
(* Texts are TLA+ strings; Len, SubSeq, Tail and \o act on them as on      *)
(* sequences of characters.  Row and column indices are 0-based as in the  *)
(* source: row i of a sheet is sheet[i + 1].                               *)
(***************************************************************************)
EXTENDS Integers, Sequences, FiniteSets, TLC

VARIABLES
    doc,                      \* the input workbook: file name, sheets
    pc,                       \* position of the running flow
    project_name,             \* converter.project_name
    rera_number,              \* converter.rera_number
    as_on_date,               \* converter.as_on_date
    unit_sections,            \* converter.unit_sections
    include_building_column,  \* converter.include_building_column
    process_ok,               \* what process_form3_file returned
    sheet_i,                  \* attempt_data_recovery: index of the next sheet
    recovery_ok,              \* what attempt_data_recovery returned
    rendered,                 \* the table create_circular29_excel wrote
    hist,                     \* history: what was observed on the way
    x_sheet,                  \* extract_unit_data: its sheet_data
    x_section,                \* extract_unit_data: its section_keyword
    x,                        \* extract_unit_data: its locals
    flow,                     \* the conversion flow that is running
    listing,                  \* batch_convert_form3_files: the directory
    excel_files,              \* batch_convert_form3_files: the files found
    file_i,                   \* batch_convert_form3_files: index of the file
    success,                  \* batch_convert_form3_files: success
    results                   \* batch_convert_form3_files: results

vars == <<doc, pc, project_name, rera_number, as_on_date, unit_sections,
          include_building_column, process_ok, sheet_i, recovery_ok,
          rendered, hist, x_sheet, x_section, x,
          flow, listing, excel_files, file_i, success, results>>

---------------------------------------------------------------------------
(* Python text primitives                                                  *)

UpperAlpha == "ABCDEFGHIJKLMNOPQRSTUVWXYZ"

LowerAlpha == "abcdefghijklmnopqrstuvwxyz"

Digits == "0123456789"

Whitespace == {" "}

Min(S) == CHOOSE m \in S : \A n \in S : m <= n

Max(S) == CHOOSE m \in S : \A n \in S : m >= n

CharAt(s, i) == SubSeq(s, i, i)

IndexIn(alphabet, c) ==
    CHOOSE i \in 1..Len(alphabet) : CharAt(alphabet, i) = c

UpperSet == {CharAt(UpperAlpha, i) : i \in 1..Len(UpperAlpha)}

LowerSet == {CharAt(LowerAlpha, i) : i \in 1..Len(LowerAlpha)}

DigitSet == {CharAt(Digits, i) : i \in 1..Len(Digits)}

ToLower == [c \in UpperSet |-> CharAt(LowerAlpha, IndexIn(UpperAlpha, c))]

ToUpper == [c \in LowerSet |-> CharAt(UpperAlpha, IndexIn(LowerAlpha, c))]

DigitValue == [c \in DigitSet |-> IndexIn(Digits, c) - 1]

IsDigit(c) == c \in DigitSet

IsUpper(c) == c \in UpperSet

IsAlnum(c) == c \in DigitSet \/ c \in UpperSet \/ c \in LowerSet

LowerCh(c) == IF c \in UpperSet THEN ToLower[c] ELSE c

UpperCh(c) == IF c \in LowerSet THEN ToUpper[c] ELSE c

\* character by character, the text split in halves
RECURSIVE lower(_)
lower(s) ==
    IF s = "" THEN ""
    ELSE IF Len(s) = 1 THEN LowerCh(s)
    ELSE lower(SubSeq(s, 1, Len(s) \div 2))
         \o lower(SubSeq(s, (Len(s) \div 2) + 1, Len(s)))

RECURSIVE upper(_)
upper(s) ==
    IF s = "" THEN ""
    ELSE IF Len(s) = 1 THEN UpperCh(s)
    ELSE upper(SubSeq(s, 1, Len(s) \div 2))
         \o upper(SubSeq(s, (Len(s) \div 2) + 1, Len(s)))

capitalize(s) ==
    IF s = "" THEN "" ELSE UpperCh(CharAt(s, 1)) \o lower(Tail(s))

RECURSIVE lstrip(_)
lstrip(s) ==
    IF s # "" /\ CharAt(s, 1) \in Whitespace THEN lstrip(Tail(s)) ELSE s

RECURSIVE rstrip(_)
rstrip(s) ==
    IF s # "" /\ CharAt(s, Len(s)) \in Whitespace
    THEN rstrip(SubSeq(s, 1, Len(s) - 1)) ELSE s

strip(s) == rstrip(lstrip(s))

\* Python's  sub in s
Contains(s, sub) ==
    \E i \in 0..(Len(s) - Len(sub)) : SubSeq(s, i + 1, i + Len(sub)) = sub

\* s[i:] for a 0-based i
From(s, i) == IF i >= Len(s) THEN "" ELSE SubSeq(s, i + 1, Len(s))

StartsWith(s, p) == Len(s) >= Len(p) /\ SubSeq(s, 1, Len(p)) = p

\* the number of leading characters of s that satisfy the class
RECURSIVE SpanWs(_)
SpanWs(s) ==
    IF s # "" /\ CharAt(s, 1) \in Whitespace THEN 1 + SpanWs(Tail(s)) ELSE 0

RECURSIVE SpanDigits(_)
SpanDigits(s) ==
    IF s # "" /\ IsDigit(CharAt(s, 1)) THEN 1 + SpanDigits(Tail(s)) ELSE 0

RECURSIVE SpanAlnum(_)
SpanAlnum(s) ==
    IF s # "" /\ IsAlnum(CharAt(s, 1)) THEN 1 + SpanAlnum(Tail(s)) ELSE 0

RECURSIVE ParseNat(_)
ParseNat(s) ==
    IF s = "" THEN 0
    ELSE 10 * ParseNat(SubSeq(s, 1, Len(s) - 1))
         + DigitValue[CharAt(s, Len(s))]

---------------------------------------------------------------------------
(* Cells of a pandas DataFrame read with header=None.  k is the Python     *)
(* type of the value, s is what str() gives for it: "1" for the int 1,     *)
(* "1.0" for the float 1.0, "nan" for a missing cell.                      *)

TxtCell(s) == [k |-> "str", s |-> s]

IntCell(s) == [k |-> "int", s |-> s]

FltCell(s) == [k |-> "float", s |-> s]

NaN == [k |-> "nan", s |-> "nan"]

notna(cell) == cell.k # "nan"

str(cell) == cell.s

\* str(row[col]) if pd.notna(row[col]) else ""
cell_value_str(cell) == IF notna(cell) THEN str(cell) ELSE ""

NRows(sheet_data) == Len(sheet_data)

Row(sheet_data, i) == sheet_data[i + 1]

NCols(sheet_data) == IF sheet_data = <<>> THEN 0 ELSE Len(sheet_data[1])

normalize_text(text) == lower(strip(text))

\* float(): surrounding blanks, a sign, then inf / infinity / nan or a
\* decimal numeral.  Exponent and underscore forms are not in the cell
\* vocabulary of this model.
FloatValue(kind, neg, int, frac) ==
    [ok |-> kind # "err", kind |-> kind, neg |-> neg, int |-> int, frac |-> frac]

\* the digits after the point when rest starts with one, else -1
FractionDigits(rest) ==
    IF rest # "" /\ CharAt(rest, 1) = "." THEN SpanDigits(Tail(rest)) ELSE -1

\* u is n1 digits followed by rest, of which n2 digits follow a point
FloatNumeral(u, neg, n1, rest, n2) ==
    IF n2 = -1
    THEN IF rest = "" /\ n1 > 0
         THEN FloatValue("fin", neg, ParseNat(SubSeq(u, 1, n1)), "")
         ELSE FloatValue("err", neg, 0, "")
    ELSE IF Len(rest) = 1 + n2 /\ n1 + n2 > 0
         THEN FloatValue("fin", neg, ParseNat(SubSeq(u, 1, n1)), SubSeq(rest, 2, 1 + n2))
         ELSE FloatValue("err", neg, 0, "")

FloatDigits(u, neg, n1) ==
    FloatNumeral(u, neg, n1, From(u, n1), FractionDigits(From(u, n1)))

FloatUnsigned(u, neg) ==
    IF u \in {"inf", "infinity"} THEN FloatValue("inf", neg, 0, "")
    ELSE IF u = "nan" THEN FloatValue("nan", neg, 0, "")
    ELSE FloatDigits(u, neg, SpanDigits(u))

FloatSigned(t) ==
    IF t # "" /\ CharAt(t, 1) \in {"-", "+"}
    THEN FloatUnsigned(Tail(t), CharAt(t, 1) = "-")
    ELSE FloatUnsigned(t, FALSE)

PyFloat(text) == FloatSigned(lower(strip(text)))

\* float(cell) for a cell of any type: a number converts to itself
float(cell) ==
    IF cell.k = "nan" THEN FloatValue("nan", FALSE, 0, "")
    ELSE PyFloat(cell.s)

\* int(f): "value", or the exception raised
IntOf(f) ==
    IF ~f.ok THEN [exc |-> "ValueError", value |-> 0]
    ELSE IF f.kind = "nan" THEN [exc |-> "ValueError", value |-> 0]
    ELSE IF f.kind = "inf" THEN [exc |-> "OverflowError", value |-> 0]
    ELSE [exc |-> "", value |-> IF f.neg THEN 0 - f.int ELSE f.int]

\* int(float(cell))
int_float(cell) == IntOf(float(cell))

IsOne(f) == f.kind = "fin" /\ ~f.neg /\ f.int = 1 /\ ParseNat(f.frac) = 0

\* cell_value == 1 or cell_value == "1"
EqOne(cell) ==
    \/ cell.k = "str" /\ cell.s = "1"
    \/ cell.k \in {"int", "float"} /\ IsOne(PyFloat(cell.s))

---------------------------------------------------------------------------
(* Grid scanners                                                           *)

Sections == <<"sold", "unsold", "tenant", "landowner", "rehab", "cidco", "pap">>

SectionSet == {Sections[i] : i \in 1..Len(Sections)}

\* ConversionConfig.section_keywords: the synonyms listed for each label
section_keywords ==
    [sold |-> {"sold", "booked"},
     unsold |-> {"unsold", "available"},
     tenant |-> {"tenant", "rented"},
     landowner |-> {"landowner", "land owner", "owner"},
     rehab |-> {"existing", "members", "member"},
     cidco |-> {"CIDCO", "NMMC"},
     pap |-> {"PAP"}]

RowHasKeyword(row, section_keyword) ==
    \E c \in 1..Len(row) :
        Contains(lower(cell_value_str(row[c])), lower(section_keyword))

find_section_start(sheet_data, section_keyword) ==
    LET found == {i \in 0..(NRows(sheet_data) - 1) :
                     RowHasKeyword(Row(sheet_data, i), section_keyword)}
    IN IF found = {} THEN -1 ELSE Min(found)

find_data_start_row(sheet_data, start_row) ==
    LET found == {i \in start_row..(NRows(sheet_data) - 1) :
                     \E c \in 1..Len(Row(sheet_data, i)) :
                         EqOne(Row(sheet_data, i)[c])}
    IN IF found = {} THEN -1 ELSE Min(found)

header_keywords == {"sr", "flat", "carpet", "unit", "building", "wing"}

HeaderThreshold == 2

HeaderLookback == 3

\* match_count of one row
match_count(row) ==
    Cardinality({c \in 1..Len(row) :
        LET text == lower(strip(str(row[c])))
        IN \E keyword \in header_keywords : Contains(text, keyword)})

\* every row from the top of the sheet down to the data start
HeaderWindowFromTop(data_start) == 0..data_start

\* range(max(0, data_start - 3), data_start + 1)
HeaderWindow(data_start) ==
    Max({0, data_start - HeaderLookback})..data_start

\* the first row of the window with a single keyword cell or more
HeaderRowIndexBug1(sheet_data, data_start) ==
    LET ok == {i \in HeaderWindow(data_start) :
                  match_count(Row(sheet_data, i)) >= 1}
    IN IF ok = {} THEN -1 ELSE Min(ok)

\* the first row of the window with match_count >= 2, else -1
HeaderRowIndex(sheet_data, data_start) ==
    LET ok == {i \in HeaderWindow(data_start) :
                  match_count(Row(sheet_data, i)) >= HeaderThreshold}
    IN IF ok = {} THEN -1 ELSE Min(ok)

Headers(sheet_data, header_row_index) ==
    [c \in 1..NCols(sheet_data) |->
        normalize_text(cell_value_str(Row(sheet_data, header_row_index)[c]))]

Has(m, field) == field \in DOMAIN m

Put(m, field, i) == [f \in DOMAIN m \cup {field} |-> IF f = field THEN i ELSE m[f]]

\* the chain without its `not in col_mapping` tests: a later column
\* replaces an earlier one
MapHeaderRemap(col_mapping, i, header) ==
    IF Contains(header, "sr") /\ Contains(header, "no")
    THEN Put(col_mapping, "sr_no", i)
    ELSE IF \/ Contains(header, "flat") /\ Contains(header, "no")
            \/ Contains(header, "shop") /\ Contains(header, "no")
    THEN Put(col_mapping, "flat_no", i)
    ELSE IF Contains(header, "carpet") /\ Contains(header, "area")
    THEN Put(col_mapping, "carpet_area", i)
    ELSE IF Contains(header, "unit") /\ Contains(header, "type")
            /\ ~Contains(header, "apartment")
    THEN Put(col_mapping, "unit_type", i)
    ELSE IF Contains(header, "building") /\ Contains(header, "no")
    THEN Put(col_mapping, "building_no", i)
    ELSE IF Contains(header, "wing")
    THEN Put(col_mapping, "building_no", i)
    ELSE col_mapping

\* the rules as independent `if` statements instead of one if / elif chain:
\* a header that satisfies two rules is given to both fields
MapHeaderEveryRule(col_mapping, i, header) ==
    LET sr == IF Contains(header, "sr") /\ Contains(header, "no")
                 /\ ~Has(col_mapping, "sr_no")
              THEN Put(col_mapping, "sr_no", i) ELSE col_mapping
        flat == IF /\ \/ Contains(header, "flat") /\ Contains(header, "no")
                      \/ Contains(header, "shop") /\ Contains(header, "no")
                   /\ ~Has(sr, "flat_no")
                THEN Put(sr, "flat_no", i) ELSE sr
        carpet == IF Contains(header, "carpet") /\ Contains(header, "area")
                     /\ ~Has(flat, "carpet_area")
                  THEN Put(flat, "carpet_area", i) ELSE flat
        unit == IF Contains(header, "unit") /\ Contains(header, "type")
                   /\ ~Contains(header, "apartment") /\ ~Has(carpet, "unit_type")
                THEN Put(carpet, "unit_type", i) ELSE carpet
    IN IF /\ \/ Contains(header, "building") /\ Contains(header, "no")
             \/ Contains(header, "wing")
          /\ ~Has(unit, "building_no")
       THEN Put(unit, "building_no", i) ELSE unit

\* one pass of the if / elif chain for header i (0-based column index)
MapHeader(col_mapping, i, header) ==
    IF Contains(header, "sr") /\ Contains(header, "no") /\ ~Has(col_mapping, "sr_no")
    THEN Put(col_mapping, "sr_no", i)
    ELSE IF /\ \/ Contains(header, "flat") /\ Contains(header, "no")
               \/ Contains(header, "shop") /\ Contains(header, "no")
            /\ ~Has(col_mapping, "flat_no")
    THEN Put(col_mapping, "flat_no", i)
    ELSE IF Contains(header, "carpet") /\ Contains(header, "area")
            /\ ~Has(col_mapping, "carpet_area")
    THEN Put(col_mapping, "carpet_area", i)
    ELSE IF Contains(header, "unit") /\ Contains(header, "type")
            /\ ~Contains(header, "apartment") /\ ~Has(col_mapping, "unit_type")
    THEN Put(col_mapping, "unit_type", i)
    ELSE IF Contains(header, "building") /\ Contains(header, "no")
            /\ ~Has(col_mapping, "building_no")
    THEN Put(col_mapping, "building_no", i)
    ELSE IF Contains(header, "wing") /\ ~Has(col_mapping, "building_no")
    THEN Put(col_mapping, "building_no", i)
    ELSE col_mapping

EmptyMap == [f \in {} |-> 0]

\* the mapping loop over headers[0 .. n-1]; flag is include_building_column
RECURSIVE MapColumns(_, _, _)
MapColumns(headers, n, flag) ==
    IF n = 0 THEN [col_mapping |-> EmptyMap, flag |-> flag]
    ELSE LET before == MapColumns(headers, n - 1, flag)
             m == MapHeader(before.col_mapping, n - 1, headers[n])
         IN [col_mapping |-> m,
             flag |-> IF Has(m, "building_no") THEN TRUE ELSE before.flag]

\* the positional default whatever the mapping holds
GetDefault(col_mapping, field, default) == default

\* col_mapping.get(field, default)
Get(col_mapping, field, default) ==
    IF Has(col_mapping, field) THEN col_mapping[field] ELSE default

\* str(row.iloc[i]).strip() if (i < len(row) and pd.notna(row.iloc[i])) else ""
FieldText(row, i) ==
    IF i < Len(row) /\ notna(row[i + 1]) THEN strip(str(row[i + 1])) ELSE ""

unit_data(row, col_mapping, sr_no, section_keyword) ==
    [sr_no |-> sr_no,
     building_no |-> FieldText(row, Get(col_mapping, "building_no", 1)),
     flat_no |-> FieldText(row, Get(col_mapping, "flat_no", 2)),
     carpet_area |-> FieldText(row, Get(col_mapping, "carpet_area", 3)),
     status |-> lower(section_keyword),
     registration_date |-> ""]

---------------------------------------------------------------------------
(* extract_unit_data: the part before the row loop, then the row loop one  *)
(* iteration at a time (states SCANNING, EXTRACTING, STOPPED of the record *)
(* extractor), then the function as a whole.                               *)

\* section start, data start, header row, column mapping; flag is
\* self.include_building_column, set as a side effect of the mapping
Located(section_start, data_start, header_row_index, mapped) ==
    [section_start |-> section_start,
     data_start |-> data_start,
     header_row_index |-> header_row_index,
     col_mapping |-> mapped.col_mapping,
     flag |-> mapped.flag]

LocateColumns(sheet_data, flag, section_start, data_start, header_row_index) ==
    Located(section_start, data_start, header_row_index,
            IF header_row_index = -1
            THEN [col_mapping |-> EmptyMap, flag |-> flag]
            ELSE MapColumns(Headers(sheet_data, header_row_index),
                            NCols(sheet_data), flag))

LocateHeader(sheet_data, flag, section_start, data_start) ==
    LocateColumns(sheet_data, flag, section_start, data_start,
                  IF data_start = -1 THEN -1
                  ELSE HeaderRowIndex(sheet_data, data_start))

LocateData(sheet_data, flag, section_start) ==
    LocateHeader(sheet_data, flag, section_start,
                 IF section_start = -1 THEN -1
                 ELSE find_data_start_row(sheet_data, section_start))

Locate(sheet_data, section_keyword, flag) ==
    LocateData(sheet_data, flag, find_section_start(sheet_data, section_keyword))

\* the locals of the row loop
LoopStart(data_start) ==
    [status |-> "loop", row_index |-> data_start, parsing_started |-> FALSE,
     units |-> <<>>, exc |-> ""]

\* row.iloc[sr_no_col] if sr_no_col < len(row) else None
SrNoCell(row, col_mapping) ==
    LET sr_no_col == Get(col_mapping, "sr_no", 0)
    IN IF sr_no_col < Len(row) THEN row[sr_no_col + 1] ELSE NaN

CaughtBySerialParse == {"ValueError", "TypeError"}

\* the body of the loop for one row: sr_no is str(sr_no_cell).strip(),
\* parsed is int(float(sr_no_cell))
RowBody(row, sr_no_cell, sr_no, parsed, col_mapping, section_keyword, st) ==
    IF ~(st.parsing_started \/ sr_no = "1")
    THEN [st EXCEPT !.row_index = @ + 1]
    ELSE IF ~notna(sr_no_cell) \/ sr_no = ""
    THEN [st EXCEPT !.status = "returned", !.parsing_started = TRUE]
    ELSE IF parsed.exc \in CaughtBySerialParse
    THEN [st EXCEPT !.status = "returned", !.parsing_started = TRUE]
    ELSE IF parsed.exc # ""
    THEN [st EXCEPT !.status = "raised", !.parsing_started = TRUE,
                    !.exc = parsed.exc]
    ELSE [st EXCEPT !.row_index = @ + 1, !.parsing_started = TRUE,
                    !.units = Append(@, unit_data(row, col_mapping,
                                         parsed.value, section_keyword))]

RowSerial(row, sr_no_cell, col_mapping, section_keyword, st) ==
    RowBody(row, sr_no_cell, strip(str(sr_no_cell)), int_float(sr_no_cell),
            col_mapping, section_keyword, st)

\* one iteration of  for row_index in range(data_start, len(sheet_data))
RowStep(sheet_data, section_keyword, col_mapping, st) ==
    IF st.row_index >= NRows(sheet_data)
    THEN [st EXCEPT !.status = "returned"]
    ELSE RowSerial(Row(sheet_data, st.row_index),
                   SrNoCell(Row(sheet_data, st.row_index), col_mapping),
                   col_mapping, section_keyword, st)

RECURSIVE RunRows(_, _, _, _)
RunRows(sheet_data, section_keyword, col_mapping, st) ==
    IF st.status # "loop" THEN st
    ELSE RunRows(sheet_data, section_keyword, col_mapping,
                 RowStep(sheet_data, section_keyword, col_mapping, st))

\* what the call hands back when the row loop has ended in st
Returned(st, flag) ==
    [units |-> IF st.status = "returned" THEN st.units ELSE <<>>,
     exc |-> st.exc, flag |-> flag]

ExtractLocated(sheet_data, section_keyword, loc) ==
    IF loc.header_row_index = -1
    THEN [units |-> <<>>, exc |-> "", flag |-> loc.flag]
    ELSE Returned(RunRows(sheet_data, section_keyword, loc.col_mapping,
                          LoopStart(loc.data_start)),
                  loc.flag)

\* the call as a whole: the list returned (none when it raised), the
\* exception that escaped, and include_building_column afterwards
extract_unit_data(sheet_data, section_keyword, flag) ==
    ExtractLocated(sheet_data, section_keyword,
                   Locate(sheet_data, section_keyword, flag))

---------------------------------------------------------------------------
(* Metadata extractors.  A regular expression is modelled by the match     *)
(* re.search finds: the leftmost start, a greedy \s+, a lazy (.+?).  The   *)
(* patterns are matched on the lower-cased text (re.IGNORECASE), the       *)
(* captured group is cut from the text as written.                         *)

\* 0-based positions at which p occurs in s, ascending from the smallest
Occurrences(s, p) ==
    {i \in 0..(Len(s) - Len(p)) : SubSeq(s, i + 1, i + Len(p)) = p}

\* s[i:j]
Slice(s, i, j) == IF j <= i THEN "" ELSE SubSeq(s, i + 1, j)

\* text[q:] matches  \s+ word
WsThen(low, q, word) ==
    LET w == SpanWs(From(low, q))
    IN w >= 1 /\ StartsWith(From(low, q + w), word)

NoMatch == [matched |-> FALSE, group |-> ""]

\* prefix \s+ (.+?) \s+ suffix  tried at the occurrence of prefix at i

LazyGroupAt(text, low, i, prefix, suffix) ==
    LET after == i + Len(prefix)
        w == SpanWs(From(low, after))
        ends == {q \in (after + w + 1)..Len(low) : WsThen(low, q, suffix)}
    IN IF w = 0 THEN NoMatch
       ELSE IF ends # {}
       THEN [matched |-> TRUE, group |-> Slice(text, after + w, Min(ends))]
       \* the \s+ before the group gives blanks back: one for the group, one
       \* for the \s+ after it
       ELSE IF w >= 3 /\ StartsWith(From(low, after + w), suffix)
       THEN [matched |-> TRUE, group |-> Slice(text, after + 1, after + 2)]
       ELSE NoMatch

FirstMatch(starts, at(_)) ==
    LET good == {i \in starts : at(i).matched}
    IN IF good = {} THEN NoMatch ELSE at(Min(good))

\* re.search(r'for the project\s+(.+?)\s+having', cell_value, re.IGNORECASE)
project_match(cell_value) ==
    LET low == lower(cell_value)
        at(i) == LazyGroupAt(cell_value, low, i, "for the project", "having")
    IN FirstMatch(Occurrences(low, "for the project"), at)

\* re.search(r'having maharera registration number\s+([A-Z0-9]+)\s+being developed', ...)
RegistrationPrefix == "having maharera registration number"

rera_match(cell_value) ==
    LET low == lower(cell_value)
        at(i) ==
            LET after == i + Len(RegistrationPrefix)
                w == SpanWs(From(low, after))
                a == SpanAlnum(From(low, after + w))
            IN IF w >= 1 /\ a >= 1 /\ WsThen(low, after + w + a, "being developed")
               THEN [matched |-> TRUE, group |-> Slice(cell_value, after + w, after + w + a)]
               ELSE NoMatch
    IN FirstMatch(Occurrences(low, RegistrationPrefix), at)

\* re.search(r'\(as on\s+(.+?)\)', cell_value, re.IGNORECASE)
date_match(cell_value) ==
    LET low == lower(cell_value)
        at(i) ==
            LET after == i + Len("(as on")
                w == SpanWs(From(low, after))
                ends == {q \in (after + w + 1)..(Len(low) - 1) : CharAt(low, q + 1) = ")"}
            IN IF w = 0 THEN NoMatch
               ELSE IF ends # {}
               THEN [matched |-> TRUE, group |-> Slice(cell_value, after + w, Min(ends))]
               ELSE IF w >= 2 /\ StartsWith(From(low, after + w), ")")
               THEN [matched |-> TRUE, group |-> " "]
               ELSE NoMatch
    IN FirstMatch(Occurrences(low, "(as on"), at)

\* the cells of a sheet in scanning order: rows, then columns
CellsOf(sheet_data) ==
    LET n == NCols(sheet_data)
    IN [k \in 1..(NRows(sheet_data) * n) |->
           sheet_data[((k - 1) \div n) + 1][((k - 1) % n) + 1]]

CertificateTrigger == "certificate is being issued for the project"

\* the returned pair, or the exception raised: the return statement reads
\* project_name and rera_number, which are bound only when their pattern
\* matched
InfoOf(pm, rm) ==
    IF pm.matched /\ rm.matched
    THEN [project_name |-> strip(pm.group), rera_number |-> strip(rm.group),
          exc |-> ""]
    ELSE [project_name |-> "", rera_number |-> "", exc |-> "UnboundLocalError"]

InfoOfCell(cell_value) == InfoOf(project_match(cell_value), rera_match(cell_value))

\* hits: the cells that hold the trigger sentence
InfoOfHits(cells, hits) ==
    IF hits = {}
    THEN [project_name |-> "", rera_number |-> "", exc |-> ""]
    ELSE InfoOfCell(cell_value_str(cells[Min(hits)]))

InfoOfCells(cells) ==
    InfoOfHits(cells,
               {k \in 1..Len(cells) :
                   Contains(lower(cell_value_str(cells[k])), CertificateTrigger)})

extract_project_info(sheet_data) == InfoOfCells(CellsOf(sheet_data))

extract_as_on_date(sheet_data) ==
    LET cells == CellsOf(sheet_data)
        found == {k \in 1..Len(cells) :
                    LET low == lower(cell_value_str(cells[k]))
                    IN /\ Contains(low, "table b") /\ Contains(low, "as on")
                       /\ date_match(cell_value_str(cells[k])).matched}
    IN IF found = {} THEN ""
       ELSE strip(date_match(cell_value_str(cells[Min(found)])).group)

\* os.path.splitext(filename)[0]
splitext0(filename) ==
    LET dots == {i \in 2..Len(filename) : CharAt(filename, i) = "."}
    IN IF dots = {} THEN filename ELSE SubSeq(filename, 1, Max(dots) - 1)

NoFilenameMatch == [matched |-> FALSE, start |-> 0, group |-> ""]

FilenameMatch(base_name, i, length) ==
    [matched |-> TRUE, start |-> i, group |-> Slice(base_name, i, i + length)]

FirstFilenameMatch(base_name, starts, length(_)) ==
    IF starts = {} THEN NoFilenameMatch
    ELSE FilenameMatch(base_name, Min(starts), length(Min(starts)))

\* re.search(r'([A-Z]\d+)', base_name): the match and its 0-based start
filename_rera(base_name) ==
    LET length(i) == 1 + SpanDigits(From(base_name, i + 1))
    IN FirstFilenameMatch(base_name,
                          {i \in 0..(Len(base_name) - 2) :
                              /\ IsUpper(CharAt(base_name, i + 1))
                              /\ IsDigit(CharAt(base_name, i + 2))},
                          length)

DateSeparators == {"/", "-"}

\* \d{1,2}[/-] at the head of s: its length, 0 when it does not match
DayOrMonth(s) ==
    LET d == SpanDigits(s)
    IN IF d \in {1, 2} /\ Len(s) > d /\ CharAt(s, d + 1) \in DateSeparators
       THEN d + 1 ELSE 0

\* the length of  \d{1,2}[/-]\d{1,2}[/-]\d{2,4}  when its parts are a, b
\* and y characters long, 0 when one of them does not match
DateLength(a, b, y) ==
    IF a > 0 /\ b > 0 /\ y >= 2 THEN a + b + Min({y, 4}) ELSE 0

DateLengthMonth(s, a, b) == DateLength(a, b, SpanDigits(From(s, a + b)))

DateLengthDay(s, a) == DateLengthMonth(s, a, DayOrMonth(From(s, a)))

\* the length of the match at the head of s
DateLengthAt(s) == DateLengthDay(s, DayOrMonth(s))

\* re.search(r'(\d{1,2}[/-]\d{1,2}[/-]\d{2,4})', base_name).  A start
\* inside a run of digits is tried too: the first digit of a three-digit
\* run has no match, the second has.
filename_date(base_name) ==
    LET length(i) == DateLengthAt(From(base_name, i))
    IN FirstFilenameMatch(base_name,
                          {i \in 0..(Len(base_name) - 1) : length(i) > 0},
                          length)

\* what re.sub(r'[_-]+', ' ', s) leaves of the character at position i: a
\* run of separators becomes one blank, at its last character
SubstitutedAt(s, i) ==
    IF CharAt(s, i) \in {"_", "-"}
    THEN IF i < Len(s) /\ CharAt(s, i + 1) \in {"_", "-"} THEN "" ELSE " "
    ELSE CharAt(s, i)

RECURSIVE SubstitutedRange(_, _, _)
SubstitutedRange(s, lo, hi) ==
    IF lo > hi THEN ""
    ELSE IF lo = hi THEN SubstitutedAt(s, lo)
    ELSE SubstitutedRange(s, lo, (lo + hi) \div 2)
         \o SubstitutedRange(s, ((lo + hi) \div 2) + 1, hi)

sub_separators(s) == SubstitutedRange(s, 1, Len(s))

\* everything before the registration number, else before the date
FilenameProject(base_name, rm, dm) ==
    IF rm.matched THEN strip(Slice(base_name, 0, rm.start))
    ELSE IF dm.matched THEN strip(Slice(base_name, 0, dm.start))
    ELSE base_name

FilenameInfo(base_name, rm, dm) ==
    [project_name |-> strip(sub_separators(FilenameProject(base_name, rm, dm))),
     rera_number |-> rm.group,
     date_str |-> dm.group]

FilenameInfoOf(base_name) ==
    FilenameInfo(base_name, filename_rera(base_name), filename_date(base_name))

extract_from_filename(filename) == FilenameInfoOf(splitext0(filename))

---------------------------------------------------------------------------
(* pd.read_excel(..., header=None): what a stored sheet becomes.  A stored *)
(* cell is a text, an integer or empty.                                    *)

MapCells(raw, f(_, _)) ==
    [r \in 1..Len(raw) |-> [c \in 1..Len(raw[r]) |-> f(raw[r][c], c)]]

\* dtype=str (Table C of the primary pass): every value becomes its text,
\* an empty cell stays NaN
ReadStr(raw) ==
    LET conv(cell, c) == IF cell.k \in {"int", "float"} THEN TxtCell(cell.s) ELSE cell
    IN MapCells(raw, conv)

\* no dtype (Table A, Table B, every sheet of the recovery pass): a column
\* holding a text keeps its values; a column of integers and empty cells
\* becomes float64
ReadInfer(raw) ==
    LET kinds(c) == {raw[r][c].k : r \in 1..Len(raw)}
        conv(cell, c) ==
            IF "str" \notin kinds(c) /\ "nan" \in kinds(c) /\ cell.k = "int"
            THEN FltCell(cell.s \o ".0")
            ELSE cell
    IN MapCells(raw, conv)

Read(raw, mode) == IF mode = "str" THEN ReadStr(raw) ELSE ReadInfer(raw)

---------------------------------------------------------------------------
(* The grids the record extractor is run on                                *)

MaxRun == 3

MaxPre == 4

Dig(i) == CharAt(Digits, i + 1)

BannerRow(label) == <<TxtCell(label), NaN, NaN, NaN, NaN>>

HeaderFull ==
    <<TxtCell("Sr No"), TxtCell("Wing"), TxtCell("Flat No"),
      TxtCell("Carpet Area"), TxtCell("Status")>>

HeaderNoSr ==
    <<NaN, TxtCell("Building No"), TxtCell("Flat No"),
      TxtCell("Carpet Area"), TxtCell("Status")>>

HeaderOneHit == <<TxtCell("Sr No"), NaN, NaN, NaN, NaN>>

HeaderTwoHits == <<TxtCell("Sr No"), NaN, TxtCell("Flat No"), NaN, NaN>>

DataRow(serial, i, status) ==
    <<serial, TxtCell("A"), IntCell("10" \o Dig(i)), IntCell("5" \o Dig(i)), status>>

\* a data row two of whose cells hold a header token
TokenRow(serial, i, status) ==
    <<serial, TxtCell("Wing A"), TxtCell("Flat 10" \o Dig(i)), IntCell("5" \o Dig(i)), status>>

DataRows(serials, status) ==
    [i \in 1..Len(serials) |-> DataRow(serials[i], i, status)]

Run(n) == [i \in 1..n |-> IntCell(Dig(i))]

PreSerials == {<<>>, <<IntCell("2"), IntCell("3")>>}

AfterCells ==
    {NaN, TxtCell(" "), TxtCell("x"), TxtCell("inf"), TxtCell("nan"), TxtCell("2.5")}

AfterSerials ==
    {<<>>} \cup {<<a>> \o t : a \in AfterCells, t \in {<<>>, <<IntCell("7")>>}}

SerialColumns ==
    {pre \o Run(n) \o after :
        pre \in PreSerials, n \in 0..MaxRun, after \in AfterSerials}

Labels == {"Sold", "Unsold"}

\* banner row, header row, data rows
BannerGrids ==
    {<<BannerRow(label), HeaderFull>> \o DataRows(col, NaN) :
        label \in Labels, col \in SerialColumns}

\* header row, data rows that carry the label in their last cell
StatusGrids ==
    {<<h>> \o DataRows(col, TxtCell(label)) :
        h \in {HeaderFull, HeaderNoSr}, label \in Labels, col \in SerialColumns}

WindowRows == {BannerRow("Sold"), HeaderOneHit, HeaderTwoHits, HeaderFull}

RECURSIVE SeqsUpTo(_, _)
SeqsUpTo(S, n) ==
    IF n = 0 THEN {<<>>}
    ELSE LET shorter == SeqsUpTo(S, n - 1)
         IN shorter \cup {Append(q, e) : q \in {t \in shorter : Len(t) = n - 1}, e \in S}

\* up to MaxPre rows above the data, each with 0, 1, 2 or more token cells
WindowGrids ==
    {pre \o <<first, DataRow(IntCell("2"), 2, TxtCell("Sold"))>> :
        pre \in SeqsUpTo(WindowRows, MaxPre),
        first \in {DataRow(IntCell("1"), 1, TxtCell("Sold")),
                   TokenRow(IntCell("1"), 1, TxtCell("Sold"))}}

XSections == {"sold", "unsold", "cidco"}

BannerWords ==
    {"Booked Units", "Available Units", "Rehab Units", "Existing Members",
     "Land Owner Share", "NMMC Units"}

\* a title row, then a banner worded with a synonym or with the label itself
WordedGrids ==
    {<<BannerRow("Inventory"), BannerRow(words), HeaderFull>>
        \o DataRows(Run(2), NaN) : words \in BannerWords}

\* the header names the columns in another order than the positional
\* defaults 0, 1, 2, 3; a data row with empty and blank cells
SwappedGrid ==
    <<<<TxtCell("Sold"), NaN, NaN, NaN>>,
      <<TxtCell("Sr No"), TxtCell("Carpet Area"), TxtCell("Wing"), TxtCell("Flat No")>>,
      <<IntCell("1"), TxtCell("51.5"), TxtCell("A"), IntCell("101")>>,
      <<IntCell("2"), NaN, TxtCell("  "), TxtCell(" 102 ")>>>>

\* two columns are named, the others are found by position
PartialGrid ==
    <<<<TxtCell("Sold"), NaN, NaN, NaN>>,
      <<TxtCell("Sr No"), TxtCell("Flat No"), TxtCell("Remarks"), TxtCell("Area")>>,
      <<IntCell("1"), IntCell("101"), TxtCell("x"), IntCell("51")>>,
      <<IntCell("2"), NaN, TxtCell("y"), NaN>>>>

\* three columns: position 3 lies beyond the width of the rows
NarrowGrid ==
    <<<<TxtCell("Sold"), NaN, NaN>>,
      <<TxtCell("Sr No"), TxtCell("Flat No"), TxtCell("Wing")>>,
      <<IntCell("1"), IntCell("101"), TxtCell("A")>>,
      <<IntCell("2"), NaN, TxtCell("B")>>>>

\* two columns: positions 2 and 3 lie beyond the width
TwoColumnGrid ==
    <<<<TxtCell("Sold"), NaN>>,
      <<TxtCell("Sr No"), TxtCell("Wing No")>>,
      <<IntCell("1"), TxtCell("A")>>,
      <<IntCell("2"), TxtCell("B")>>>>

PositionGrids == {SwappedGrid, PartialGrid, NarrowGrid, TwoColumnGrid}

BlankRow == <<NaN, NaN, NaN, NaN, NaN>>

\* two sections, each under its own banner and header, a blank row between
SeparatedGrid ==
    <<BannerRow("Sold"), HeaderFull>> \o DataRows(Run(2), NaN)
        \o <<BlankRow, BannerRow("Tenant"), HeaderFull>> \o DataRows(Run(2), NaN)

\* one header; the rows of the second section follow those of the first,
\* every row names its section in the last cell
RunOnGrid ==
    <<HeaderFull>> \o DataRows(Run(2), TxtCell("Sold"))
        \o DataRows(Run(2), TxtCell("Tenant"))

SectionGrids == {SeparatedGrid, RunOnGrid}

XInputs ==
    {<<Read(raw, mode), section>> :
        raw \in BannerGrids \cup StatusGrids, mode \in {"str", "infer"},
        section \in XSections}
    \cup {<<ReadStr(raw), "sold">> : raw \in WindowGrids}
    \cup {<<ReadStr(raw), section>> : raw \in WordedGrids, section \in SectionSet}
    \cup {<<Read(raw, mode), "sold">> :
             raw \in PositionGrids, mode \in {"str", "infer"}}
    \cup {<<ReadStr(raw), section>> :
             raw \in SectionGrids, section \in {"sold", "tenant"}}

---------------------------------------------------------------------------
(* The converter: process_form3_file, attempt_data_recovery,               *)
(* create_circular29_excel.  A converter state is the record of the        *)
(* instance's fields.                                                      *)

NoDoc == [filename |-> "", openable |-> FALSE, sheets |-> <<>>]

NoUnits == [s \in SectionSet |-> <<>>]

Converter(pn, rn, d, us, flag) ==
    [project_name |-> pn, rera_number |-> rn, as_on_date |-> d,
     unit_sections |-> us, include_building_column |-> flag]

\* Form3ToCircular29Converter.__init__
NewConverter == Converter("", "", "", NoUnits, FALSE)

Self ==
    Converter(project_name, rera_number, as_on_date, unit_sections,
              include_building_column)

\* the first sheet whose name contains the pattern, 0 when there is none
FirstSheet(d, pattern) ==
    LET found == {k \in 1..Len(d.sheets) : Contains(lower(d.sheets[k].name), pattern)}
    IN IF found = {} THEN 0 ELSE Min(found)

\* self.unit_sections[section] = units, or the exception of the call
Extracted(before, section, e) ==
    [conv |-> [before.conv EXCEPT
                  !.include_building_column = e.flag,
                  !.unit_sections[section] = IF e.exc = "" THEN e.units ELSE @],
     exc |-> e.exc,
     calls |-> Append(before.calls, section)]

ExtractNext(table_c_data, section, before) ==
    IF before.exc # "" THEN before
    ELSE Extracted(before, section,
                   extract_unit_data(table_c_data, section,
                                     before.conv.include_building_column))

\* for section in sections: self.unit_sections[section] =
\*     self.extract_unit_data(table_c_data, section)     (the first n sections)
RECURSIVE ExtractSections(_, _, _)
ExtractSections(table_c_data, n, c) ==
    IF n = 0 THEN [conv |-> c, exc |-> "", calls |-> <<>>]
    ELSE ExtractNext(table_c_data, Sections[n],
                     ExtractSections(table_c_data, n - 1, c))

\* lines 394-404
FallbackFrom(c, fb) ==
    [c EXCEPT
       !.project_name = IF @ = "" THEN fb.project_name ELSE @,
       !.rera_number = IF @ = "" THEN fb.rera_number ELSE @,
       !.as_on_date = IF @ = "" THEN fb.date_str ELSE @]

FilenameFallback(c, filename) ==
    IF c.project_name = "" \/ c.rera_number = "" \/ c.as_on_date = ""
    THEN FallbackFrom(c, extract_from_filename(filename))
    ELSE c

\* the converter afterwards and the value returned; exc is what the
\* except clause of line 416 caught
Processed(filename, units) ==
    IF units.exc # ""
    THEN [conv |-> units.conv, ok |-> FALSE, exc |-> units.exc,
          calls |-> units.calls]
    ELSE [conv |-> FilenameFallback(units.conv, filename), ok |-> TRUE,
          exc |-> "", calls |-> units.calls]

\* lines 378-392: Table C, read as text
ProcessTableC(d, c, t) ==
    Processed(d.filename,
              IF t = 0 THEN [conv |-> c, exc |-> "", calls |-> <<>>]
              ELSE ExtractSections(ReadStr(d.sheets[t].raw), Len(Sections), c))

\* lines 367-376: Table B
ProcessTableB(d, c, b) ==
    ProcessTableC(d,
                  IF b = 0 THEN c
                  ELSE [c EXCEPT !.as_on_date =
                                    extract_as_on_date(ReadInfer(d.sheets[b].raw))],
                  FirstSheet(d, "table c"))

\* lines 356-365: Table A
ProcessTableA(d, c, info) ==
    IF info.exc # ""
    THEN [conv |-> c, ok |-> FALSE, exc |-> info.exc, calls |-> <<>>]
    ELSE ProcessTableB(d,
                       [c EXCEPT !.project_name = info.project_name,
                                 !.rera_number = info.rera_number],
                       FirstSheet(d, "table b"))

ProcessSheets(d, c, a) ==
    IF a = 0 THEN ProcessTableB(d, c, FirstSheet(d, "table b"))
    ELSE ProcessTableA(d, c, extract_project_info(ReadInfer(d.sheets[a].raw)))

process_form3_file(d, c) ==
    IF ~d.openable THEN [conv |-> c, ok |-> FALSE, exc |-> "IOError", calls |-> <<>>]
    ELSE ProcessSheets(d, c, FirstSheet(d, "table a"))

\* lines 840-843
RecoverDate(c, sheet_data) ==
    IF c.as_on_date # "" THEN c
    ELSE [c EXCEPT !.as_on_date = extract_as_on_date(sheet_data)]

\* lines 833-837 without `if project_name:` and `if rera_number:`: what the
\* sheet yields is assigned, empty or not
RecoverInfoUnguarded(c, sheet_data, info) ==
    IF info.exc # "" THEN [conv |-> c, exc |-> info.exc, calls |-> <<>>]
    ELSE [conv |-> RecoverDate(
                      [c EXCEPT !.project_name = info.project_name,
                                !.rera_number = info.rera_number],
                      sheet_data),
          exc |-> "", calls |-> <<>>]

\* lines 833-837
RecoverInfo(c, sheet_data, info) ==
    IF info.exc # "" THEN [conv |-> c, exc |-> info.exc, calls |-> <<>>]
    ELSE [conv |-> RecoverDate(
                      [c EXCEPT
                         !.project_name =
                             IF info.project_name # "" THEN info.project_name ELSE @,
                         !.rera_number =
                             IF info.rera_number # "" THEN info.rera_number ELSE @],
                      sheet_data),
          exc |-> "", calls |-> <<>>]

\* lines 831-843 for one sheet: project info and date
RecoverMetadata(sheet_data, c) ==
    IF c.project_name = "" \/ c.rera_number = ""
    THEN RecoverInfo(c, sheet_data, extract_project_info(sheet_data))
    ELSE [conv |-> RecoverDate(c, sheet_data), exc |-> "", calls |-> <<>>]

\* if units: converter.unit_sections[section] = units
Recovered(before, section, e) ==
    [conv |-> [before.conv EXCEPT
                  !.include_building_column = e.flag,
                  !.unit_sections[section] =
                      IF e.exc = "" /\ e.units # <<>> THEN e.units ELSE @],
     exc |-> e.exc,
     calls |-> Append(before.calls, section)]

RecoverNext(sheet_data, section, before) ==
    IF before.exc # "" THEN before
    ELSE IF before.conv.unit_sections[section] # <<>> THEN before
    ELSE Recovered(before, section,
                   extract_unit_data(sheet_data, section,
                                     before.conv.include_building_column))

\* lines 846-851 for one sheet: the first n sections
RECURSIVE RecoverSections(_, _, _)
RecoverSections(sheet_data, n, meta) ==
    IF n = 0 THEN meta
    ELSE RecoverNext(sheet_data, Sections[n],
                     RecoverSections(sheet_data, n - 1, meta))

RecoverFromData(sheet_data, c) ==
    RecoverSections(sheet_data, Len(Sections), RecoverMetadata(sheet_data, c))

\* the body of the loop over excel_file.sheet_names for one sheet; what
\* the sheet raises is caught at line 853 and the next sheet is scanned
RecoverFromSheet(sheet, c) == RecoverFromData(ReadInfer(sheet.raw), c)

HasUnits(c) == \E section \in SectionSet : c.unit_sections[section] # <<>>

\* lines 857-866
RecoveryReport(c) ==
    LET has_basic_info == c.project_name # "" \/ c.rera_number # ""
        has_units == HasUnits(c)
    IN has_basic_info \/ has_units

---------------------------------------------------------------------------
(* create_circular29_excel: the header row and the data rows of the table  *)

RECURSIVE ToStr(_)
ToStr(n) ==
    IF n < 10 THEN CharAt(Digits, n + 1)
    ELSE ToStr(n \div 10) \o CharAt(Digits, (n % 10) + 1)

\* "%.2f" of a number of hundredths
TwoDecimals(sign, hundredths) ==
    sign \o ToStr(hundredths \div 100) \o "."
    \o (IF hundredths % 100 < 10 THEN "0" ELSE "") \o ToStr(hundredths % 100)

\* a numeral is rounded on its third decimal
FormatFloat(carpet_val, f) ==
    IF ~f.ok THEN carpet_val
    ELSE IF f.kind # "fin" THEN (IF f.neg THEN "-" ELSE "") \o f.kind
    ELSE TwoDecimals(IF f.neg THEN "-" ELSE "",
                     (1000 * f.int + ParseNat(SubSeq(f.frac \o "000", 1, 3)) + 5) \div 10)

\* f"{float(carpet_val):.2f}", the text as it is when float() fails
FormatCarpet(carpet_val) == FormatFloat(carpet_val, PyFloat(carpet_val))

section_order == <<"sold", "unsold", "landowner", "tenant", "rehab", "cidco", "pap">>

StatusDisplay(section) ==
    IF section \in {"cidco", "pap"} THEN upper(section) ELSE capitalize(section)

\* the registration date the record carries
RegDateFromUnit(section, unit) == unit.registration_date

\* lines 572-576
RegDate(section, unit) == IF section = "sold" THEN "" ELSE "NA"

TableHeaders(include_building_no) ==
    <<"Sr.No">>
    \o (IF include_building_no THEN <<"Building No">> ELSE <<>>)
    \o <<"Flat No./ Shop No", "Carpet Area In Sq.Mtrs ",
          "Sold/ Booked /Unsold Reserved/ Rehab/ Mortgaged/ Not for Sale",
          "Registration Date of Sub Registrar">>

\* the serial number the record carries
SerialFromUnit(unit_counter, unit) == unit.sr_no

\* value=unit_counter
SerialShown(unit_counter, unit) == unit_counter

\* one data row: the number in column A and the texts of the other columns
TableRow(unit, section, unit_counter, include_building_no) ==
    [sr_no |-> SerialShown(unit_counter, unit),
     cells |->
        (IF include_building_no THEN <<strip(unit.building_no)>> ELSE <<>>)
        \o <<strip(unit.flat_no), FormatCarpet(unit.carpet_area),
              StatusDisplay(section), RegDate(section, unit)>>]

\* some record carries a building label
BuildingFlagIfAnyLabel(c) ==
    \E section \in SectionSet :
        \E k \in 1..Len(c.unit_sections[section]) :
            c.unit_sections[section][k].building_no # ""

\* include_building_no = self.include_building_column
BuildingFlagOf(c) == c.include_building_column

RowsOf(units, section, before, include_building_no) ==
    before \o
    [k \in 1..Len(units) |->
        TableRow(units[k], section, Len(before) + k, include_building_no)]

\* the rows of the first n sections of the order, numbered from 1
RECURSIVE TableRows(_, _, _, _)
TableRows(c, order, n, include_building_no) ==
    IF n = 0 THEN <<>>
    ELSE RowsOf(c.unit_sections[order[n]], order[n],
                TableRows(c, order, n - 1, include_building_no),
                include_building_no)

Layout(c, include_building_no) ==
    [project_line |-> "Name of Project: " \o c.project_name,
     rera_line |-> "MahaRERA Project Registration Number: " \o c.rera_number,
     headers |-> TableHeaders(include_building_no),
     rows |-> TableRows(c, section_order, Len(section_order), include_building_no)]

\* what the saved workbook holds
Circular29(c) == Layout(c, BuildingFlagOf(c))

NoTable == [project_line |-> "", rera_line |-> "", headers |-> <<>>, rows |-> <<>>]

---------------------------------------------------------------------------
(* validate_form3_file                                                     *)

EndsWith(s, suffix) ==
    Len(s) >= Len(suffix) /\ SubSeq(s, Len(s) - Len(suffix) + 1, Len(s)) = suffix

\* any(phrase in str(cell).lower() for row in values for cell in row
\*     if pd.notna(cell)) for one of the phrases
AnyCellContains(sheet_data, phrases) ==
    LET cells == CellsOf(sheet_data)
    IN \E k \in 1..Len(cells) :
          /\ notna(cells[k])
          /\ \E phrase \in phrases : Contains(lower(str(cells[k])), phrase)

validate_form3_file(d) ==
    LET is_excel == EndsWith(d.filename, ".xlsx") \/ EndsWith(d.filename, ".xls")
        opened == is_excel /\ d.openable
        a == FirstSheet(d, "table a")
        b == FirstSheet(d, "table b")
        c == FirstSheet(d, "table c")
        has_table_a == opened /\ a # 0
        has_table_b == opened /\ b # 0
        has_table_c == opened /\ c # 0
        \* the content check of table A reads excel_file.sheet_names[0]
        has_project_info ==
            has_table_a /\ AnyCellContains(ReadInfer(d.sheets[1].raw), {CertificateTrigger})
        has_date_info ==
            has_table_b /\ AnyCellContains(ReadInfer(d.sheets[b].raw), {"as on"})
        has_unit_data ==
            has_table_c /\ AnyCellContains(ReadInfer(d.sheets[c].raw), SectionSet)
    IN [is_excel |-> is_excel,
        has_table_a |-> has_table_a,
        has_table_b |-> has_table_b,
        has_table_c |-> has_table_c,
        has_project_info |-> has_project_info,
        has_date_info |-> has_date_info,
        has_unit_data |-> has_unit_data,
        overall_valid |->
            /\ opened
            /\ has_table_a \/ has_table_b \/ has_table_c
            /\ has_project_info \/ has_date_info \/ has_unit_data]

---------------------------------------------------------------------------
(* The workbooks the converter is run on                                   *)

MaxSheets == 2

CertificateSentence(name, number) ==
    "Certificate is being issued for the project " \o name
    \o " having MahaRERA Registration Number " \o number \o " being developed"

OneCell(text) == <<<<TxtCell(text)>>>>

HeaderPlain ==
    <<TxtCell("Sr No"), NaN, TxtCell("Flat No"), TxtCell("Carpet Area"),
      TxtCell("Status")>>

\* a data row of the building named by wing
UnitRow(serial, i, wing) ==
    <<serial, TxtCell(wing), IntCell("10" \o Dig(i)), IntCell("5" \o Dig(i)), NaN>>

TableAFull == [name |-> "Table A", raw |-> OneCell(CertificateSentence("Alpha", "P123"))]

\* the sentence names the project and no registration number
TableAProjectOnly ==
    [name |-> "Table A",
     raw |-> OneCell("Certificate is being issued for the project Alpha having no number yet")]

\* a blank where the project name belongs
TableABlankName ==
    [name |-> "Table A",
     raw |-> OneCell("Certificate is being issued for the project    having MahaRERA Registration Number P5 being developed")]

TableB == [name |-> "Table B", raw |-> OneCell("Table B - Inventory (as on 30th June 2025)")]

\* sold units under a header with a Wing column, unsold units under a
\* header without one
TableCGood ==
    [name |-> "Table C",
     raw |-> <<BannerRow("Sold"), HeaderFull,
               UnitRow(IntCell("1"), 1, "A"), UnitRow(IntCell("2"), 2, "A"),
               BannerRow("Unsold"), HeaderPlain,
               UnitRow(IntCell("1"), 3, "A")>>]

\* no header names a building or a wing
TableCPlain ==
    [name |-> "Table C",
     raw |-> <<BannerRow("Unsold"), HeaderPlain,
               UnitRow(IntCell("1"), 1, "C"), UnitRow(IntCell("2"), 2, "C")>>]

\* the second sold serial is the numeral inf
TableCInf ==
    [name |-> "Table C",
     raw |-> <<BannerRow("Sold"), HeaderPlain,
               UnitRow(IntCell("1"), 1, "A"), UnitRow(TxtCell("inf"), 2, "A"),
               BannerRow("Unsold"), HeaderPlain,
               UnitRow(IntCell("1"), 3, "A"), UnitRow(IntCell("2"), 4, "A")>>]

\* the certificate sentence above a sold section whose second serial is
\* the numeral inf
TableCCertInf ==
    [name |-> "Table C",
     raw |-> <<<<TxtCell(CertificateSentence("Beta", "Q9")), NaN, NaN, NaN, NaN>>,
               BannerRow("Sold"), HeaderPlain,
               UnitRow(IntCell("1"), 1, "A"), UnitRow(TxtCell("inf"), 2, "A")>>]

Annexure ==
    [name |-> "Annexure",
     raw |-> <<<<TxtCell(CertificateSentence("Beta", "Q9"))>>,
               <<TxtCell("Inventory (as on 1st May 2024)")>>>>]

Sheet2 ==
    [name |-> "Sheet2",
     raw |-> <<BannerRow("Unsold"), HeaderPlain, UnitRow(IntCell("1"), 5, "B"),
               BannerRow("CIDCO"), HeaderFull, UnitRow(IntCell("1"), 6, "B")>>]

SheetLib ==
    {TableAFull, TableAProjectOnly, TableABlankName, TableB,
     TableCGood, TableCPlain, TableCInf, TableCCertInf, Annexure, Sheet2}

\* the sheets of a workbook have different names, whatever their case
SheetSeqs ==
    {q \in SeqsUpTo(SheetLib, MaxSheets) :
        /\ Len(q) >= 1
        /\ \A i, j \in 1..Len(q) : i # j => lower(q[i].name) # lower(q[j].name)}

Filenames == {"Alpha.xlsx", "Gamma_Park-P77 30-06-2025.xlsx"}

Docs ==
    {[filename |-> f, openable |-> TRUE, sheets |-> q] : f \in Filenames, q \in SheetSeqs}
    \cup {[filename |-> f, openable |-> FALSE, sheets |-> <<>>] : f \in Filenames}

\* what the run has done so far: the converter after the primary pass and
\* the exception that ended it, the converter on entry of the recovery pass,
\* the calls of extract_unit_data, the sheets whose recovery scan raised,
\* the number of calls of create_circular29_excel, whether one of them came
\* before the recovery pass, whether attempt_data_recovery was called a
\* second time
\* results = {}
NoResults == <<>>

NoHistory ==
    [processed |-> FALSE, primary |-> NewConverter, exc |-> "",
     entered |-> FALSE, entry |-> NewConverter,
     calls |-> <<>>, raised |-> {}, saves |-> 0, early |-> FALSE,
     again |-> FALSE]

---------------------------------------------------------------------------
(* The record extractor as a state machine                                 *)

NoLocals ==
    [section_start |-> -1, data_start |-> -1, header_row_index |-> -1,
     col_mapping |-> EmptyMap, flag |-> FALSE, status |-> "",
     row_index |-> -1, parsing_started |-> FALSE, units |-> <<>>, exc |-> ""]

PipelineIdle ==
    /\ doc = NoDoc
    /\ project_name = "" /\ rera_number = "" /\ as_on_date = ""
    /\ unit_sections = NoUnits
    /\ include_building_column = FALSE
    /\ process_ok = FALSE /\ sheet_i = 0 /\ recovery_ok = FALSE
    /\ rendered = NoTable
    /\ hist = NoHistory
    /\ flow = "" /\ listing = <<>> /\ excel_files = <<>> /\ file_i = 0
    /\ success = FALSE /\ results = NoResults

PipelineVars ==
    <<doc, project_name, rera_number, as_on_date, unit_sections,
      include_building_column, process_ok, sheet_i, recovery_ok, rendered, hist,
      flow, listing, excel_files, file_i, success, results>>

XInit ==
    /\ PipelineIdle
    /\ pc = "x_start"
    /\ \E in \in XInputs : x_sheet = in[1] /\ x_section = in[2]
    /\ x = NoLocals

XAfterLocate(loc) ==
    IF loc.header_row_index = -1
    THEN /\ x' = [x EXCEPT !.section_start = loc.section_start,
                           !.data_start = loc.data_start,
                           !.flag = loc.flag, !.status = "returned"]
         /\ pc' = "x_done"
    ELSE /\ x' = loc @@ LoopStart(loc.data_start)
         /\ pc' = "x_rows"

\* lines 229-286: locate the section, the data start, the header row, map
\* the columns; return [] when one of them is missing
XLocate ==
    /\ pc = "x_start"
    /\ XAfterLocate(Locate(x_sheet, x_section, FALSE))
    /\ UNCHANGED <<PipelineVars, x_sheet, x_section>>

XAfterRow(st) ==
    /\ x' = [x EXCEPT !.status = st.status, !.row_index = st.row_index,
                      !.parsing_started = st.parsing_started,
                      !.units = st.units, !.exc = st.exc]
    /\ pc' = IF st.status = "loop" THEN "x_rows" ELSE "x_done"

\* lines 294-339: one iteration of the row loop, or its end
XRow ==
    /\ pc = "x_rows"
    /\ XAfterRow(RowStep(x_sheet, x_section, x.col_mapping,
                         [status |-> x.status, row_index |-> x.row_index,
                          parsing_started |-> x.parsing_started,
                          units |-> x.units, exc |-> x.exc]))
    /\ UNCHANGED <<PipelineVars, x_sheet, x_section>>

XNext == XLocate \/ XRow

SpecExtract == XInit /\ [][XNext]_vars

\* the state of the record extractor as the design names it
XState ==
    IF pc = "x_done" THEN "STOPPED"
    ELSE IF pc = "x_rows" /\ x.parsing_started THEN "EXTRACTING"
    ELSE "SCANNING"

---------------------------------------------------------------------------
(* The column mapping loop of extract_unit_data, one header at a time      *)

MaxHeaders == 3

HeaderCells ==
    {NaN, TxtCell("Sr No"), TxtCell(" Flat No "), TxtCell("Shop No"),
     TxtCell("Carpet Area"), TxtCell("Unit Type"), TxtCell("Apartment Unit Type"),
     TxtCell("Building No"), TxtCell("WING"), TxtCell("Sr No / Flat No"),
     TxtCell("Status")}

HeaderRows == {q \in SeqsUpTo(HeaderCells, MaxHeaders) : Len(q) >= 1}

\* lines 259-269: the headers of the row, an empty mapping
CInit ==
    /\ PipelineIdle
    /\ pc = "x_map"
    /\ x_sheet \in {<<row>> : row \in HeaderRows}
    /\ x_section = ""
    /\ x = [headers |-> Headers(x_sheet, 0), i |-> 0,
            col_mapping |-> EmptyMap, flag |-> FALSE]

MapStepTo(m) ==
    x' = [x EXCEPT !.col_mapping = m, !.i = @ + 1,
                   !.flag = IF Has(m, "building_no") THEN TRUE ELSE @]

\* lines 270-284: one iteration of  for i, header in enumerate(headers)
MapStep ==
    /\ pc = "x_map"
    /\ x.i < Len(x.headers)
    /\ MapStepTo(MapHeader(x.col_mapping, x.i, x.headers[x.i + 1]))
    /\ UNCHANGED <<PipelineVars, pc, x_sheet, x_section>>

CNext == MapStep

SpecColumns == CInit /\ [][CNext]_vars

---------------------------------------------------------------------------
(* The conversion flows for one input file: batch_convert_form3_files for  *)
(* one file of the directory, convert_form3_to_circular29, and the upload  *)
(* flow of the interface                                                   *)

ExtractorIdle == x_sheet = <<>> /\ x_section = "" /\ x = NoLocals

ExtractorVars == <<x_sheet, x_section, x>>

InputVars == <<doc, flow, listing, excel_files, file_i>>

\* line 897: f.endswith(('.xlsx', '.xls'))
IsExcelName(filename) == EndsWith(filename, ".xlsx") \/ EndsWith(filename, ".xls")

ExcelFiles(files) == SelectSeq(files, LAMBDA d : IsExcelName(d.filename))

Flows == {"batch", "single", "upload"}

\* lines 1132-1134: the upload flow converts a temporary copy of the
\* uploaded file, named by tempfile
TempName == "tmpk3x9q2ab.xlsx"

InputPath(d, fl) == IF fl = "upload" THEN [d EXCEPT !.filename = TempName] ELSE d

\* recovery follows whatever the conversion returned
RecoveryFollowsAnyway(fl, ok) == fl = "batch"

\* line 923: `if not success`, which only batch_convert_form3_files has
RecoveryFollows(fl, ok) == fl = "batch" /\ ~ok

\* where the flow goes when the conversion has returned ok
AfterConversion(fl, ok) == IF RecoveryFollows(fl, ok) THEN "recover" ELSE "done"

Adopt(c) ==
    /\ project_name' = c.project_name
    /\ rera_number' = c.rera_number
    /\ as_on_date' = c.as_on_date
    /\ unit_sections' = c.unit_sections
    /\ include_building_column' = c.include_building_column

ConverterVars ==
    <<project_name, rera_number, as_on_date, unit_sections, include_building_column>>

\* nothing of the current file has been converted yet
FileStart ==
    /\ project_name = "" /\ rera_number = "" /\ as_on_date = ""
    /\ unit_sections = NoUnits
    /\ include_building_column = FALSE
    /\ process_ok = FALSE /\ sheet_i = 0 /\ recovery_ok = FALSE
    /\ rendered = NoTable
    /\ hist = NoHistory
    /\ success = FALSE
    /\ ExtractorIdle

Init ==
    /\ doc \in Docs
    /\ flow \in Flows
    /\ listing = IF flow = "batch" THEN <<doc>> ELSE <<>>
    /\ excel_files = ExcelFiles(listing)
    /\ file_i = IF flow = "batch" THEN 1 ELSE 0
    /\ pc = IF flow = "batch" THEN "validate" ELSE "convert"
    /\ results = NoResults
    /\ FileStart

\* the batch flow skips a file that is not valid
ValidateSkipsInvalid ==
    /\ pc = "validate"
    /\ pc' = IF validate_form3_file(doc).overall_valid THEN "convert" ELSE "recorded"
    /\ UNCHANGED <<InputVars, ConverterVars, process_ok, sheet_i, recovery_ok,
                   rendered, hist, ExtractorVars, success, results>>

\* lines 909-913
Validate ==
    /\ pc = "validate"
    /\ pc' = IF validate_form3_file(doc).overall_valid THEN "convert" ELSE "done"
    /\ UNCHANGED <<InputVars, ConverterVars, process_ok, sheet_i, recovery_ok,
                   rendered, hist, ExtractorVars, success, results>>

\* the calls of extract_unit_data on sheet number t, read in the mode
CallsOn(t, mode, sections) ==
    [k \in 1..Len(sections) |-> [sheet |-> t, mode |-> mode, section |-> sections[k]]]

AfterProcess(r) ==
    /\ Adopt(r.conv)
    /\ process_ok' = r.ok
    /\ pc' = IF r.ok THEN "create" ELSE AfterConversion(flow, FALSE)
    /\ hist' = [hist EXCEPT
                  !.processed = TRUE, !.primary = r.conv, !.exc = r.exc,
                  !.calls = CallsOn(FirstSheet(doc, "table c"), "str", r.calls)]

\* lines 916-919, 679-681, 1136-1137: a new converter, process_form3_file
Process ==
    /\ pc = "convert"
    /\ AfterProcess(process_form3_file(InputPath(doc, flow), NewConverter))
    /\ UNCHANGED <<InputVars, sheet_i, recovery_ok, rendered, ExtractorVars,
                   success, results>>

\* create_circular29_excel: the workbook is saved, or an exception is
\* caught and False returned
Save(pc_saved, pc_failed) ==
    \E save_ok \in BOOLEAN :
        /\ rendered' = IF save_ok THEN Circular29(Self) ELSE rendered
        /\ success' = save_ok
        /\ pc' = IF save_ok THEN pc_saved ELSE pc_failed
        /\ hist' = [hist EXCEPT !.saves = @ + 1,
                                !.early = @ \/ ~hist.entered]
        /\ UNCHANGED <<InputVars, ConverterVars, process_ok, sheet_i, recovery_ok,
                       ExtractorVars, results>>

\* lines 920, 682, 1150
Create ==
    /\ pc = "create"
    /\ Save(AfterConversion(flow, TRUE), AfterConversion(flow, FALSE))

\* lines 923-925 and 823-826: the recovery pass opens the workbook
RecoveryOpen ==
    /\ pc = "recover"
    /\ sheet_i' = 1
    /\ pc' = "recover_sheet"
    /\ hist' = [hist EXCEPT !.entered = TRUE, !.entry = Self]
    /\ UNCHANGED <<InputVars, ConverterVars, process_ok, recovery_ok, rendered,
                   ExtractorVars, success, results>>

AfterSheet(r) ==
    /\ Adopt(r.conv)
    /\ hist' = [hist EXCEPT
                  !.calls = @ \o CallsOn(sheet_i, "infer", r.calls),
                  !.raised = IF r.exc # "" THEN @ \cup {sheet_i} ELSE @]

\* lines 827-855: one sheet of the loop
RecoverSheet ==
    /\ pc = "recover_sheet"
    /\ sheet_i <= Len(doc.sheets)
    /\ AfterSheet(RecoverFromSheet(doc.sheets[sheet_i], Self))
    /\ sheet_i' = sheet_i + 1
    /\ UNCHANGED <<InputVars, pc, process_ok, recovery_ok, rendered,
                   ExtractorVars, success, results>>

\* lines 857-866
RecoveryEnd ==
    /\ pc = "recover_sheet"
    /\ sheet_i > Len(doc.sheets)
    /\ recovery_ok' = RecoveryReport(Self)
    /\ pc' = IF RecoveryReport(Self) THEN "create_again" ELSE "done"
    /\ UNCHANGED <<InputVars, ConverterVars, process_ok, sheet_i, rendered, hist,
                   ExtractorVars, success, results>>

\* lines 925-926
CreateAgain == pc = "create_again" /\ Save("done", "done")

\* lines 912 and 928: results[file] = False, results[file] = success
Record ==
    /\ pc = "done"
    /\ flow = "batch"
    /\ results' = (doc.filename :> success) @@ results
    /\ pc' = "recorded"
    /\ UNCHANGED <<InputVars, ConverterVars, process_ok, sheet_i, recovery_ok,
                   rendered, hist, ExtractorVars, success>>

Next ==
    \/ Validate
    \/ Process
    \/ Create
    \/ RecoveryOpen
    \/ RecoverSheet
    \/ RecoveryEnd
    \/ CreateAgain
    \/ Record

Spec == Init /\ [][Next]_vars

---------------------------------------------------------------------------
(* attempt_data_recovery called on a converter, and called once more on    *)
(* the converter it leaves                                                 *)

\* nothing the extractors look for
Cover == [name |-> "Cover", raw |-> OneCell("Form 3")]

\* a certificate sentence without a registration number, above the as-on
\* date line
SummaryBad ==
    [name |-> "Summary",
     raw |-> <<<<TxtCell("Certificate is being issued for the project Alpha having no number yet")>>,
               <<TxtCell("Table B - Inventory (as on 1st May 2024)")>>>>]

\* the sheets of the workbooks recovery is run on
YSheetLib ==
    {TableAFull, TableABlankName, TableCGood, TableCCertInf, Annexure,
     Sheet2, Cover, SummaryBad}

YSheetSeqs ==
    {q \in SeqsUpTo(YSheetLib, MaxSheets) :
        /\ Len(q) >= 1
        /\ \A i, j \in 1..Len(q) : i # j => lower(q[i].name) # lower(q[j].name)}

YDocs ==
    {[filename |-> f, openable |-> TRUE, sheets |-> q] :
        f \in Filenames, q \in YSheetSeqs}

\* the converter handed over: a new one, or the one process_form3_file
\* has worked on
YEntries(d) == {NewConverter, process_form3_file(d, NewConverter).conv}

YInit ==
    /\ doc \in YDocs
    /\ flow = "batch"
    /\ listing = <<doc>>
    /\ excel_files = <<doc>>
    /\ file_i = 1
    /\ pc = "recover"
    /\ \E c \in YEntries(doc) :
          /\ project_name = c.project_name
          /\ rera_number = c.rera_number
          /\ as_on_date = c.as_on_date
          /\ unit_sections = c.unit_sections
          /\ include_building_column = c.include_building_column
    /\ process_ok = FALSE /\ sheet_i = 0 /\ recovery_ok = FALSE
    /\ rendered = NoTable
    /\ hist = NoHistory
    /\ success = FALSE
    /\ results = NoResults
    /\ ExtractorIdle

\* lines 821-826 once more, on the converter the first call has left
RecoverAgain ==
    /\ pc \in {"create_again", "done"}
    /\ ~hist.again
    /\ sheet_i' = 1
    /\ pc' = "recover_sheet"
    /\ hist' = [hist EXCEPT !.again = TRUE, !.entry = Self]
    /\ UNCHANGED <<InputVars, ConverterVars, process_ok, recovery_ok, rendered,
                   ExtractorVars, success, results>>

YNext == RecoveryOpen \/ RecoverSheet \/ RecoveryEnd \/ RecoverAgain

SpecRecovery == YInit /\ [][YNext]_vars

---------------------------------------------------------------------------
(* batch_convert_form3_files over a directory.  Between two files of the   *)
(* loop, and before the first one, pc is "recorded".                       *)

MaxFiles == 2

\* a file with an Excel name that pd.ExcelFile cannot open
BrokenBook == [filename |-> "Broken.xlsx", openable |-> FALSE, sheets |-> <<>>]

GoodBook ==
    [filename |-> "Alpha.xlsx", openable |-> TRUE,
     sheets |-> <<TableAFull, TableCGood>>]

\* extraction raises on its Table C
RaisingBook ==
    [filename |-> "Gamma_Park-P77 30-06-2025.xlsx", openable |-> TRUE,
     sheets |-> <<TableCInf>>]

\* no sheet is named Table A, B or C: not valid
PlainBook == [filename |-> "Plain.xls", openable |-> TRUE, sheets |-> <<Sheet2>>]

NotesFile == [filename |-> "notes.txt", openable |-> FALSE, sheets |-> <<>>]

BatchLib == {BrokenBook, GoodBook, RaisingBook, PlainBook, NotesFile}

\* the files of a directory have different names
Listings ==
    {q \in SeqsUpTo(BatchLib, MaxFiles) :
        \A i, j \in 1..Len(q) : i # j => q[i].filename # q[j].filename}

BInit ==
    /\ flow \in Flows
    /\ listing \in (IF flow = "batch" THEN Listings ELSE {<<>>})
    /\ excel_files = ExcelFiles(listing)
    /\ file_i = IF excel_files = <<>> THEN 0 ELSE 1
    /\ doc \in (IF flow # "batch" THEN BatchLib
                ELSE IF excel_files = <<>> THEN {NoDoc} ELSE {excel_files[1]})
    /\ pc = IF flow # "batch" THEN "convert"
            ELSE IF excel_files = <<>> THEN "recorded" ELSE "validate"
    /\ results = NoResults
    /\ FileStart

\* line 901: the loop goes on with the next file; line 916 gives it a new
\* converter
NextFile ==
    /\ pc = "recorded"
    /\ flow = "batch"
    /\ file_i < Len(excel_files)
    /\ file_i' = file_i + 1
    /\ doc' = excel_files[file_i + 1]
    /\ pc' = "validate"
    /\ Adopt(NewConverter)
    /\ process_ok' = FALSE /\ sheet_i' = 0 /\ recovery_ok' = FALSE
    /\ rendered' = NoTable
    /\ hist' = NoHistory
    /\ success' = FALSE
    /\ UNCHANGED <<flow, listing, excel_files, results, ExtractorVars>>

\* lines 946-954: generate_batch_summary divides by len(results) (line
\* 974); then return results
Summary ==
    /\ pc = "recorded"
    /\ flow = "batch"
    /\ file_i = Len(excel_files)
    /\ \E generate_reports \in BOOLEAN :
          pc' = IF generate_reports /\ DOMAIN results = {}
                THEN "raised" ELSE "returned"
    /\ UNCHANGED <<InputVars, ConverterVars, process_ok, sheet_i, recovery_ok,
                   rendered, hist, ExtractorVars, success, results>>

BNext == Next \/ NextFile \/ Summary

SpecBatch == BInit /\ [][BNext]_vars

---------------------------------------------------------------------------
(* create_circular29_excel on arbitrary section lists                      *)

MaxUnits == 3

\* two records; the second carries a serial, a blank-padded flat number and
\* a registration date of its own
UnitPool ==
    <<[sr_no |-> 1, building_no |-> "A", flat_no |-> "101", carpet_area |-> "50",
       registration_date |-> ""],
      [sr_no |-> 7, building_no |-> "", flat_no |-> " 102", carpet_area |-> "60.5",
       registration_date |-> "01-01-2024"]>>

PoolUnit(i, section) ==
    [sr_no |-> UnitPool[i].sr_no, building_no |-> UnitPool[i].building_no,
     flat_no |-> UnitPool[i].flat_no, carpet_area |-> UnitPool[i].carpet_area,
     status |-> section, registration_date |-> UnitPool[i].registration_date]

\* the section lists that hold the placed records, each list in the order
\* of placement
Placed(placement) ==
    [section \in SectionSet |->
        LET mine == SelectSeq(placement, LAMBDA e : e[1] = section)
        IN [k \in 1..Len(mine) |-> PoolUnit(mine[k][2], section)]]

RenderInputs ==
    {Placed(placement) :
        placement \in SeqsUpTo(SectionSet \X (1..Len(UnitPool)), MaxUnits)}

RInit ==
    /\ doc = NoDoc
    /\ pc = "create"
    /\ project_name \in {"", "Alpha"} /\ rera_number = "" /\ as_on_date = ""
    /\ unit_sections \in RenderInputs
    /\ include_building_column \in BOOLEAN
    /\ process_ok = FALSE /\ sheet_i = 0 /\ recovery_ok = FALSE
    /\ rendered = NoTable
    /\ hist = NoHistory
    /\ ExtractorIdle
    /\ flow = "single" /\ listing = <<>> /\ excel_files = <<>> /\ file_i = 0
    /\ success = FALSE /\ results = NoResults

RCreate == pc = "create" /\ Save("done", "failed")

RNext == RCreate

SpecRender == RInit /\ [][RNext]_vars

---------------------------------------------------------------------------
(* Properties of the record extractor (SpecExtract)                        *)

XLocated == pc \in {"x_rows", "x_done"}

XWindow == Max({0, x.data_start - 3})..x.data_start

\* C4.  Header detection threshold: once a data start is found, the header
\* row is the first row of the window data_start-3 .. data_start that has at
\* least 2 cells containing a column-name token; a row with fewer is never
\* taken; and when no row of the window has 2 such cells the header row is
\* not found and the section returns the empty list.
C4_HeaderThreshold ==
    (XLocated /\ x.data_start # -1) =>
        LET hits(i) == match_count(Row(x_sheet, i))
        IN /\ (x.header_row_index # -1) <=> (\E i \in XWindow : hits(i) >= 2)
           /\ x.header_row_index # -1 =>
                 /\ x.header_row_index \in XWindow
                 /\ hits(x.header_row_index) >= 2
                 /\ \A i \in XWindow : i < x.header_row_index => hits(i) < 2
           /\ x.header_row_index = -1 =>
                 pc = "x_done" /\ x.status = "returned" /\ x.units = <<>>

\* a row with exactly 2 token cells is taken although a row with 1 token
\* cell precedes it in the window
C4_Witness ==
    /\ XLocated /\ x.header_row_index >= 1
    /\ match_count(Row(x_sheet, x.header_row_index)) = 2
    /\ \E i \in XWindow :
          i < x.header_row_index /\ match_count(Row(x_sheet, i)) = 1

\* the section gives up: a window in which no row has 2 token cells
C4_WitnessNone ==
    /\ XLocated /\ x.data_start # -1 /\ x.header_row_index = -1
    /\ \E i \in XWindow : match_count(Row(x_sheet, i)) = 1

\* what the claims call a serial cell that parses as an integer
SerialParses(cell) ==
    /\ notna(cell) /\ strip(str(cell)) # ""
    /\ LET f == PyFloat(str(cell)) IN f.ok /\ f.kind = "fin"

XSerial(i) == SrNoCell(Row(x_sheet, i), x.col_mapping)

XRowsFrom(i) == i..(NRows(x_sheet) - 1)

\* the row on which the extractor arms, NRows when there is none
XArmRow ==
    LET arm == {i \in XRowsFrom(x.data_start) : strip(str(XSerial(i))) = "1"}
    IN IF arm = {} THEN NRows(x_sheet) ELSE Min(arm)

\* the first row from the arming row on whose serial cell does not parse
XStopRow ==
    LET bad == {i \in XRowsFrom(XArmRow) : ~SerialParses(XSerial(i))}
    IN IF bad = {} THEN NRows(x_sheet) ELSE Min(bad)

XExpectedUnits ==
    [k \in 1..(XStopRow - XArmRow) |->
        unit_data(Row(x_sheet, XArmRow + k - 1), x.col_mapping,
                  int_float(XSerial(XArmRow + k - 1)).value, x_section)]

XFinished == pc = "x_done" /\ x.header_row_index # -1

\* C2.  Stop-on-invalid: an extractor that has armed returns exactly the
\* records of the consecutive rows, from the arming row on, whose serial
\* cell parses as an integer, up to the first row whose serial cell is
\* empty, blank or unparseable, or the end of the grid.
C2_StopOnInvalid ==
    (XFinished /\ XArmRow < NRows(x_sheet)) =>
        x.status = "returned" /\ x.units = XExpectedUnits

\* the same, for the runs in which no exception escapes the row loop
StopOnInvalidUnlessRaised ==
    (XFinished /\ XArmRow < NRows(x_sheet) /\ x.status # "raised") =>
        x.status = "returned" /\ x.units = XExpectedUnits

\* the numeric value a cell holds, -1 when it holds none
CellNumber(cell) ==
    LET f == float(cell)
    IN IF notna(cell) /\ f.ok /\ f.kind = "fin" /\ ~f.neg /\ ParseNat(f.frac) = 0
       THEN f.int ELSE -1

XSerialColumnFromSection ==
    [k \in 1..(NRows(x_sheet) - x.section_start) |->
        CellNumber(XSerial(x.section_start + k - 1))]

\* C3.  Serial arming: when the section and its header row are located and
\* the serial column from the section row down holds 2, 3, 1, 2, 3, the
\* records returned are those of the last three rows, serials 1, 2, 3.
C3_SerialArming ==
    (XFinished /\ XSerialColumnFromSection = <<2, 3, 1, 2, 3>>) =>
        /\ x.status = "returned"
        /\ [k \in 1..Len(x.units) |-> x.units[k].sr_no] = <<1, 2, 3>>
        /\ x.units[1] = unit_data(Row(x_sheet, x.section_start + 2),
                                  x.col_mapping, 1, x_section)

\* the same, for serial cells that are texts or integers
SerialArmingUnlessFloat ==
    (/\ XFinished /\ XSerialColumnFromSection = <<2, 3, 1, 2, 3>>
     /\ \A i \in XRowsFrom(x.section_start) : XSerial(i).k # "float") =>
        /\ x.status = "returned"
        /\ [k \in 1..Len(x.units) |-> x.units[k].sr_no] = <<1, 2, 3>>
        /\ x.units[1] = unit_data(Row(x_sheet, x.section_start + 2),
                                  x.col_mapping, 1, x_section)

SerialArmingReached ==
    /\ XFinished /\ XSerialColumnFromSection = <<2, 3, 1, 2, 3>>
    /\ Len(x.units) = 3

---------------------------------------------------------------------------
(* Properties of the layout generator (SpecRender and Spec)                *)

Saved == rendered # NoTable

Tagged(section) ==
    [k \in 1..Len(unit_sections[section]) |->
        [section |-> section, unit |-> unit_sections[section][k]]]

\* the records in the order the circular lists them
ExpectedRows ==
    Tagged("sold") \o Tagged("unsold") \o Tagged("landowner") \o Tagged("tenant")
    \o Tagged("rehab") \o Tagged("cidco") \o Tagged("pap")

StatusShown ==
    [sold |-> "Sold", unsold |-> "Unsold", landowner |-> "Landowner",
     tenant |-> "Tenant", rehab |-> "Rehab", cidco |-> "CIDCO", pap |-> "PAP"]

HasBuildingColumn == \E i \in 1..Len(rendered.headers) : rendered.headers[i] = "Building No"

\* the cell of a rendered row under a column of the layout without the
\* building column (1 flat, 2 carpet area, 3 status, 4 registration date)
CellOf(row, column) == row.cells[column + (Len(row.cells) - 4)]

\* C6: the data rows are the records of sold, unsold, landowner, tenant,
\* rehab, cidco, pap in that order, each section in its extracted order,
\* empty sections skipped, and row k carries the number k whatever serial
\* its record carried.
C6_OrderAndRenumbering ==
    Saved =>
        /\ Len(rendered.rows) = Len(ExpectedRows)
        /\ \A k \in 1..Len(rendered.rows) :
              /\ rendered.rows[k].sr_no = k
              /\ CellOf(rendered.rows[k], 1) = strip(ExpectedRows[k].unit.flat_no)
              /\ CellOf(rendered.rows[k], 3) = StatusShown[ExpectedRows[k].section]

\* a landowner record and a tenant record are rendered, and a row is
\* numbered otherwise than its record was
C6_Witness ==
    /\ Saved
    /\ unit_sections["tenant"] # <<>> /\ unit_sections["landowner"] # <<>>
    /\ \E k \in 1..Len(rendered.rows) : ExpectedRows[k].unit.sr_no # k

\* C7: the registration-date cell of a row is empty for a sold record and
\* "NA" for a record of any other section, whatever registration date the
\* record carries.
C7_RegistrationDate ==
    Saved =>
        \A k \in 1..Len(rendered.rows) :
            k <= Len(ExpectedRows) =>
                CellOf(rendered.rows[k], 4) =
                    IF ExpectedRows[k].section = "sold" THEN "" ELSE "NA"

\* a sold record and a cidco record are rendered and both carry a
\* registration date
C7_Witness ==
    /\ Saved
    /\ \E k \in 1..Len(unit_sections["sold"]) :
          unit_sections["sold"][k].registration_date # ""
    /\ \E k \in 1..Len(unit_sections["cidco"]) :
          unit_sections["cidco"][k].registration_date # ""
    /\ Len(rendered.rows) = Len(ExpectedRows)

---------------------------------------------------------------------------
(* Properties of the batch flow (Spec)                                     *)

NamesBuilding(headers) ==
    \E i \in 1..Len(headers) :
        \/ Contains(headers[i], "building") /\ Contains(headers[i], "no")
        \/ Contains(headers[i], "wing")

HeaderOfNamesBuilding(sheet_data, header_row_index) ==
    /\ header_row_index # -1
    /\ NamesBuilding(Headers(sheet_data, header_row_index))

\* the header row located for a call of extract_unit_data names a building
\* or a wing
HeaderNamesBuildingIn(sheet_data, section) ==
    HeaderOfNamesBuilding(sheet_data, Locate(sheet_data, section, FALSE).header_row_index)

HeaderNamesBuilding(call) ==
    HeaderNamesBuildingIn(Read(doc.sheets[call.sheet].raw, call.mode), call.section)

SomeHeaderNamesBuilding ==
    \E k \in 1..Len(hist.calls) : HeaderNamesBuilding(hist.calls[k])

ColumnPresent(present) ==
    /\ HasBuildingColumn <=> present
    /\ Len(rendered.headers) = IF present THEN 6 ELSE 5
    /\ \A k \in 1..Len(rendered.rows) :
          Len(rendered.rows[k].cells) = IF present THEN 5 ELSE 4

C5_WitnessOmitted == Saved /\ ~HasBuildingColumn /\ rendered.rows # <<>>

Kept(old, new) == old # "" => new = old

\* C1: a metadata field that is non-empty after the primary pass keeps its
\* value through the recovery pass.
C1_FirstWriterWins ==
    hist.processed =>
        /\ Kept(hist.primary.project_name, project_name)
        /\ Kept(hist.primary.rera_number, rera_number)
        /\ Kept(hist.primary.as_on_date, as_on_date)

\* what the recovery pass does keep: the as-on date, and the project name
\* and registration number when both were non-empty on entry
FirstWriterWinsWhenBothSet ==
    hist.entered =>
        /\ Kept(hist.entry.as_on_date, as_on_date)
        /\ hist.entry.project_name # "" /\ hist.entry.rera_number # ""
              => /\ project_name = hist.entry.project_name
                 /\ rera_number = hist.entry.rera_number

\* the primary pass left a project name and the recovery pass replaced it
FirstWriterLoses ==
    /\ hist.entered
    /\ hist.primary.project_name = "Alpha" /\ project_name = "Beta"

\* C8: once the primary pass has run on a workbook that opens,
\* extract_project_info raises on none of its sheets, and the pass has not
\* failed for a certificate sentence that lacks the project name or the
\* registration number.
C8_ExtractorsNeverRaise ==
    hist.processed /\ doc.openable =>
        /\ \A k \in 1..Len(doc.sheets) :
              extract_project_info(ReadInfer(doc.sheets[k].raw)).exc = ""
        /\ hist.exc # "UnboundLocalError"

\* C9: when the workbook opens and the certificate sentence is complete or
\* absent, the primary pass extracts every section of Table C and reports
\* success, whatever the serial cells hold.
C9_SerialFailureIsLocal ==
    hist.processed /\ doc.openable /\ hist.exc # "UnboundLocalError" =>
        /\ process_ok
        /\ FirstSheet(doc, "table c") # 0 =>
              [k \in 1..Len(hist.calls) |-> hist.calls[k].section] = Sections

\* the primary pass fails for no other reason than the two above
ProcessFailsOnlyByRaise ==
    hist.processed /\ doc.openable /\ ~process_ok =>
        hist.exc \in {"UnboundLocalError", "OverflowError"}

RecoveryDone == hist.entered /\ sheet_i > Len(doc.sheets)

UnitsOn(k, section) ==
    extract_unit_data(ReadInfer(doc.sheets[k].raw), section, FALSE).units

UnitsOnFirst(found, section) ==
    IF found = {} THEN <<>> ELSE UnitsOn(Min(found), section)

\* the record list of the first sheet, in sheet order, whose extraction for
\* the section is non-empty
FirstNonEmpty(section) ==
    UnitsOnFirst({k \in 1..Len(doc.sheets) : UnitsOn(k, section) # <<>>}, section)

RecoveryMerged ==
    \A section \in SectionSet :
        unit_sections[section] =
            IF hist.entry.unit_sections[section] # <<>>
            THEN hist.entry.unit_sections[section]
            ELSE FirstNonEmpty(section)

\* C10: after the recovery pass a section that was non-empty on entry is
\* unchanged, and a section that was empty on entry holds the records of the
\* first sheet whose extraction for it is non-empty.
C10_RecoveryMerge == RecoveryDone => RecoveryMerged

\* the same, for the workbooks none of whose sheets raised
RecoveryMergeUnlessRaised == RecoveryDone /\ hist.raised = {} => RecoveryMerged

\* a section adopted from the second sheet though the first sheet has
\* records for it
RecoverySkipsSheet ==
    /\ RecoveryDone /\ 1 \in hist.raised
    /\ \E section \in SectionSet :
          /\ hist.entry.unit_sections[section] = <<>>
          /\ unit_sections[section] # <<>>
          /\ unit_sections[section] # FirstNonEmpty(section)


---------------------------------------------------------------------------
(* Properties of the conversion flows: when the recovery pass runs (Spec)  *)

\* a metadata field is empty or a section has no record
Incomplete(c) ==
    \/ c.project_name = "" \/ c.rera_number = "" \/ c.as_on_date = ""
    \/ \E section \in SectionSet : c.unit_sections[section] = <<>>

RecoveryPcs == {"recover", "recover_sheet", "create_again"}

FlowEnded == pc \in {"done", "recorded"}

C11_WitnessRendered ==
    /\ FlowEnded /\ success /\ ~hist.entered
    /\ Incomplete(hist.primary)
    /\ flow = "batch"


---------------------------------------------------------------------------
(* Properties of the recovery pass: its report, a sheet that raises (Spec) *)

\* attempt_data_recovery has returned
RecoveryReturned == hist.entered /\ pc \in {"create_again", "done", "recorded"}

\* a metadata field or a section that was empty on entry is filled
RecoveryAdded ==
    \/ hist.entry.project_name = "" /\ project_name # ""
    \/ hist.entry.rera_number = "" /\ rera_number # ""
    \/ hist.entry.as_on_date = "" /\ as_on_date # ""
    \/ \E section \in SectionSet :
          hist.entry.unit_sections[section] = <<>> /\ unit_sections[section] # <<>>

\* C12: attempt_data_recovery reports success exactly when it filled a
\* metadata field or a section that was empty on entry; it does not report
\* success when it added nothing.
C12_RecoveryReport == RecoveryReturned => (recovery_ok <=> RecoveryAdded)

\* the scan of the sheet at sheet_i raises in this step
RaisesHere == pc = "recover_sheet" /\ sheet_i \notin hist.raised /\ sheet_i \in hist'.raised

\* the loop goes on with the next sheet
ScanContinues == pc' = "recover_sheet" /\ sheet_i' = sheet_i + 1

SectionsKept ==
    \A section \in SectionSet :
        unit_sections[section] # <<>> => unit_sections'[section] = unit_sections[section]

\* C13: when the scan of a sheet raises during attempt_data_recovery, the
\* exception is not propagated, the scan goes on with the next sheet, and
\* every value merged from the sheets scanned before is kept.
C13_FailingSheetIsolated ==
    [][RaisesHere =>
          /\ ScanContinues
          /\ SectionsKept
          /\ sheet_i > 1 => /\ Kept(project_name, project_name')
                            /\ Kept(rera_number, rera_number')
                            /\ Kept(as_on_date, as_on_date')]_vars

\* what holds of a sheet that raises: the loop goes on, the section lists
\* and the as-on date found before are kept
FailingSheetSkipped ==
    [][RaisesHere =>
          /\ ScanContinues
          /\ SectionsKept
          /\ Kept(as_on_date, as_on_date')]_vars

\* every sheet is scanned before attempt_data_recovery returns, also when
\* the scan of one of them has raised
AllSheetsScanned == RecoveryReturned => sheet_i = Len(doc.sheets) + 1

\* a sheet raised and a later sheet was scanned
LaterSheetScanned ==
    \E k \in hist.raised : k < Len(doc.sheets) /\ sheet_i > k + 1

---------------------------------------------------------------------------
(* The section locator and the synonyms of a label                         *)

CellHasSynonym(cell, section) ==
    \E word \in section_keywords[section] :
        Contains(lower(cell_value_str(cell)), lower(word))

SynonymRows(sheet_data, section) ==
    {i \in 0..(NRows(sheet_data) - 1) :
        \E c \in 1..Len(Row(sheet_data, i)) :
            CellHasSynonym(Row(sheet_data, i)[c], section)}

\* C14: the section locator returns the smallest row index that has a cell
\* containing, case-insensitively, one of the synonyms of the label, and -1
\* exactly when no cell contains a synonym
C14_SectionLocator ==
    pc # "x_start" =>
        x.section_start = IF SynonymRows(x_sheet, x_section) = {} THEN -1
                          ELSE Min(SynonymRows(x_sheet, x_section))

LabelRows ==
    {i \in 0..(NRows(x_sheet) - 1) :
        \E c \in 1..Len(Row(x_sheet, i)) :
            notna(Row(x_sheet, i)[c])
            /\ Contains(lower(Row(x_sheet, i)[c].s), x_section)}

\* what the locator returns: the first row with a cell containing the label
\* itself, whatever synonyms the configuration lists for it
SectionLocatorByLabel ==
    pc # "x_start" =>
        /\ x.section_start = -1 <=> LabelRows = {}
        /\ x.section_start # -1 =>
              x.section_start \in LabelRows
              /\ \A i \in LabelRows : x.section_start <= i

\* a banner worded with a synonym only: the section is not found
SynonymBannerMissed ==
    /\ pc = "x_done"
    /\ x.section_start = -1
    /\ SynonymRows(x_sheet, x_section) # {}

\* a banner worded with the label, which is none of its synonyms: found
LabelBannerFound ==
    /\ pc # "x_start"
    /\ x.section_start # -1
    /\ SynonymRows(x_sheet, x_section) = {}

---------------------------------------------------------------------------
(* The filename fallback and the values the sheets hold                    *)

\* what extract_from_filename gives for the path the flow converts
FilenameValues == extract_from_filename(InputPath(doc, flow).filename)

InfoYield(info, field) == IF info.exc = "" THEN info[field] ELSE ""

\* the value a scan of sheet k yields for the field, "" when it yields none
SheetYield(k, field) ==
    IF field = "as_on_date"
    THEN extract_as_on_date(ReadInfer(doc.sheets[k].raw))
    ELSE InfoYield(extract_project_info(ReadInfer(doc.sheets[k].raw)), field)

\* the sheets scanned so far: by the primary pass the sheet named for the
\* field, by the recovery pass every sheet the loop has gone through
ScannedFor(field) ==
    ({FirstSheet(doc, IF field = "as_on_date" THEN "table b" ELSE "table a")}
        \ {0})
    \cup (IF hist.entered THEN 1..(sheet_i - 1) ELSE {})

YieldsFor(field) ==
    {SheetYield(k, field) : k \in ScannedFor(field)} \ {""}

\* the field holds the value of the filename although a scanned sheet
\* yields another one
PreEmpted(value, from_filename, yields) ==
    /\ value # ""
    /\ value = from_filename
    /\ yields # {}
    /\ value \notin yields

\* C15: when a flow has ended, no metadata field holds its filename-derived
\* value if a sheet scanned by the primary pass or by the recovery pass
\* yields a value for that field
C15_FilenameLast ==
    FlowEnded /\ hist.processed /\ doc.openable =>
        /\ ~PreEmpted(project_name, FilenameValues.project_name,
                      YieldsFor("project_name"))
        /\ ~PreEmpted(rera_number, FilenameValues.rera_number,
                      YieldsFor("rera_number"))
        /\ ~PreEmpted(as_on_date, FilenameValues.date_str,
                      YieldsFor("as_on_date"))

\* within process_form3_file the fallback does come last: a value the
\* sheet named for the field yields is what the primary pass returns
FallbackAfterPrimarySheets ==
    hist.processed /\ process_ok =>
        \A field \in {"project_name", "rera_number", "as_on_date"} :
            \A k \in ScannedFor(field) \ (IF hist.entered THEN 1..(sheet_i - 1) ELSE {}) :
                SheetYield(k, field) # "" =>
                    hist.primary[field] = SheetYield(k, field)

\* the recovery pass has scanned a sheet that names the project, the
\* primary pass had the name from the filename
FilenameBeforeRecovery ==
    /\ FlowEnded
    /\ hist.entered
    /\ hist.primary.project_name = FilenameValues.project_name
    /\ YieldsFor("project_name") # {}

---------------------------------------------------------------------------
(* An input that cannot be opened, and the other files of the directory    *)

FoundNames ==
    {listing[k].filename : k \in {j \in 1..Len(listing) :
        \/ EndsWith(listing[j].filename, ".xlsx")
        \/ EndsWith(listing[j].filename, ".xls")}}

Unopenable ==
    {listing[k].filename : k \in {j \in 1..Len(listing) : ~listing[j].openable}}

\* C16: process_form3_file returns False on an input that cannot be opened;
\* in the batch flow every Excel file of the directory is handled, a valid
\* one is processed, and the results returned hold exactly one boolean per
\* Excel file found, False for a file that cannot be opened
C16_PerDocument ==
    /\ hist.processed /\ ~doc.openable => ~process_ok /\ pc # "raised"
    /\ flow = "batch" =>
          /\ pc = "raised" => FoundNames = {}
          /\ pc = "done" /\ validate_form3_file(doc).overall_valid =>
                hist.processed
          /\ pc = "recorded" =>
                DOMAIN results = {excel_files[k].filename : k \in 1..file_i}
          /\ pc = "returned" =>
                /\ DOMAIN results = FoundNames
                /\ \A f \in FoundNames : results[f] \in BOOLEAN
                /\ \A f \in FoundNames \cap Unopenable : results[f] = FALSE

\* a directory whose first Excel file cannot be opened and whose second one
\* is converted
C16_Witness ==
    /\ flow = "batch"
    /\ pc = "returned"
    /\ Len(excel_files) = 2
    /\ ~excel_files[1].openable
    /\ results[excel_files[2].filename]

\* process_form3_file was called on an input that cannot be opened
UnopenableProcessed ==
    /\ hist.processed
    /\ ~doc.openable
    /\ pc = "done"

---------------------------------------------------------------------------
(* The column mapper                                                       *)

RuleOrder == <<"sr_no", "flat_no", "carpet_area", "unit_type", "building_no">>

\* the rule of a field, on a header text
Satisfies(field, text) ==
    IF field = "sr_no" THEN Contains(text, "sr") /\ Contains(text, "no")
    ELSE IF field = "flat_no"
    THEN (Contains(text, "flat") \/ Contains(text, "shop")) /\ Contains(text, "no")
    ELSE IF field = "carpet_area"
    THEN Contains(text, "carpet") /\ Contains(text, "area")
    ELSE IF field = "unit_type"
    THEN Contains(text, "unit") /\ Contains(text, "type")
         /\ ~Contains(text, "apartment")
    ELSE (Contains(text, "building") /\ Contains(text, "no"))
         \/ Contains(text, "wing")

\* the rules the text satisfies whose field the mapping does not have yet
OpenRules(text, m) ==
    {r \in 1..Len(RuleOrder) :
        Satisfies(RuleOrder[r], text) /\ RuleOrder[r] \notin DOMAIN m}

Assigned(m, i, open) ==
    IF open = {} THEN m ELSE (RuleOrder[Min(open)] :> i) @@ m

\* C17: every step of the scan over the header cells, left to right, gives
\* the cell to the first rule in the order sr_no, flat_no, carpet_area,
\* unit_type, building_no that it satisfies and whose field is unmapped,
\* and to none when there is no such rule; the columns mapped before are
\* kept and no other field enters the map
C17_ColumnMapper ==
    [][x'.col_mapping =
           Assigned(x.col_mapping, x.i,
                    OpenRules(x.headers[x.i + 1], x.col_mapping))]_vars

\* the second header satisfies the rule of sr_no, mapped already, and goes
\* to flat_no; the third header satisfies the rule of flat_no and is left
C17_Witness ==
    /\ x.i = 3
    /\ Satisfies("sr_no", x.headers[2])
    /\ Satisfies("flat_no", x.headers[3])
    /\ x.col_mapping = [sr_no |-> 0, flat_no |-> 1]

\* whole rows: a field is mapped to the first column open to it, and a
\* field none of the headers satisfies is absent
MappedColumns ==
    \A r \in 1..Len(RuleOrder) :
        /\ RuleOrder[r] \in DOMAIN x.col_mapping =>
              /\ x.col_mapping[RuleOrder[r]] < x.i
              /\ Satisfies(RuleOrder[r], x.headers[x.col_mapping[RuleOrder[r]] + 1])
        /\ RuleOrder[r] \notin DOMAIN x.col_mapping =>
              \A j \in 1..x.i :
                  Satisfies(RuleOrder[r], x.headers[j]) =>
                      \E s \in 1..(r - 1) :
                          /\ Satisfies(RuleOrder[s], x.headers[j])
                          /\ x.col_mapping[RuleOrder[s]] = j - 1

---------------------------------------------------------------------------
(* Where the header window is anchored                                     *)

HeaderFound == XLocated /\ x.header_row_index # -1

TokenRows == {i \in 0..(NRows(x_sheet) - 1) : match_count(Row(x_sheet, i)) >= 2}

RowsBack(anchor) == {i \in 0..anchor : anchor - i <= 3}

\* C18 as stated: the rows examined for the header are the rows
\* section_start-3 .. section_start, clamped to the grid, and no row below
\* section_start is selected as the header row
C18_WindowAtSectionStart ==
    XLocated /\ x.data_start # -1 =>
        /\ x.header_row_index # -1 <=> RowsBack(x.section_start) \cap TokenRows # {}
        /\ x.header_row_index # -1 => x.header_row_index \in RowsBack(x.section_start)

\* C18 amended: the window is anchored at the data start, the first row at
\* or below section_start holding a cell equal to 1.  The rows examined are
\* data_start-3 .. data_start, clamped at row 0: a header row is found
\* exactly when one of them has 2 token cells, it is one of them, and it may
\* lie below section_start or above it
C18_WindowAtDataStart ==
    XLocated /\ x.data_start # -1 =>
        /\ x.section_start >= 0
        /\ x.data_start >= x.section_start
        /\ x.header_row_index # -1 <=> RowsBack(x.data_start) \cap TokenRows # {}
        /\ x.header_row_index # -1 => x.header_row_index \in RowsBack(x.data_start)

\* the header row lies below the banner that section_start names, and a
\* row with 2 token cells higher up, outside the window, was not examined
C18_Witness ==
    /\ HeaderFound
    /\ x.header_row_index > x.section_start
    /\ \E i \in TokenRows : i < x.data_start - 3

\* the header row lies above section_start
HeaderAboveSection ==
    /\ HeaderFound
    /\ x.header_row_index < x.section_start

---------------------------------------------------------------------------
(* Arming on a serial cell that holds 1                                    *)

\* the row loop is at a row whose serial cell find_data_start_row accepts
\* as Sr. No = 1: the text "1", the integer 1 or the float 1.0
AtSerialOne ==
    /\ pc = "x_rows"
    /\ x.row_index < NRows(x_sheet)
    /\ EqOne(XSerial(x.row_index))

Emitted == x'.parsing_started /\ Len(x'.units) = Len(x.units) + 1

\* C19: at a row whose serial cell holds exactly 1, as text, integer or
\* float, the extractor is armed after the step and has emitted a record
\* for the row
C19_ArmingAcceptsOne == [][AtSerialOne => Emitted]_vars

\* the same for the serial cells that are texts or integers
ArmingOnTextOrInteger ==
    [][AtSerialOne /\ XSerial(x.row_index).k # "float" => Emitted]_vars

\* the data start was found at a float 1.0 in the serial column, and the
\* row loop has passed that row without arming
FloatOneSkipped ==
    /\ pc = "x_rows"
    /\ x.row_index > x.data_start
    /\ XSerial(x.data_start) = FltCell("1.0")
    /\ ~x.parsing_started

---------------------------------------------------------------------------
(* Where the fields of a record are read from                              *)

\* the column of a field: the mapped one, else the position
ColumnOf(field, position) ==
    IF field \in DOMAIN x.col_mapping THEN x.col_mapping[field] ELSE position

\* the trimmed text of cell j of row r; empty beyond the width of the row
\* and for an empty cell
TextAt(r, j) ==
    IF j >= Len(x_sheet[r + 1]) THEN ""
    ELSE IF x_sheet[r + 1][j + 1].k = "nan" THEN ""
    ELSE strip(x_sheet[r + 1][j + 1].s)

\* the records collected are those of the rows just above row_index
RecordRow(k) == x.row_index - Len(x.units) + k - 1

RecordFromRow(u, r) ==
    /\ r \in x.data_start..(NRows(x_sheet) - 1)
    /\ ColumnOf("sr_no", 0) < Len(x_sheet[r + 1])
    /\ int_float(x_sheet[r + 1][ColumnOf("sr_no", 0) + 1])
          = [exc |-> "", value |-> u.sr_no]
    /\ u.building_no = TextAt(r, ColumnOf("building_no", 1))
    /\ u.flat_no = TextAt(r, ColumnOf("flat_no", 2))
    /\ u.carpet_area = TextAt(r, ColumnOf("carpet_area", 3))
    /\ u.status = x_section
    /\ u.registration_date = ""

\* C20: every record holds the serial of the mapped sr_no column or of
\* column 0, the building label of the mapped building_no column or of
\* column 1, the flat label of the mapped flat_no column or of column 2,
\* the carpet area of the mapped carpet_area column or of column 3, the
\* empty text for a column beyond the width of the row and for an empty
\* cell, the section label as status and an empty registration date
C20_PositionalFallback ==
    XLocated /\ x.header_row_index # -1 =>
        \A k \in 1..Len(x.units) : RecordFromRow(x.units[k], RecordRow(k))

\* two records read through a mapping that differs from the positions,
\* the carpet area from position 3, beyond the width of the rows, and an
\* empty cell
C20_Witness ==
    /\ pc = "x_done"
    /\ Len(x.units) = 2
    /\ NCols(x_sheet) = 3
    /\ x.col_mapping = [sr_no |-> 0, flat_no |-> 1, building_no |-> 2]
    /\ x.units[1].building_no = "A" /\ x.units[1].carpet_area = ""
    /\ x.units[2].flat_no = ""

\* the building label and the flat label both read from column 1: the
\* flat number is mapped there and the building label falls back to it
SameColumnTwice ==
    /\ pc = "x_done"
    /\ Len(x.units) = 2
    /\ ColumnOf("flat_no", 2) = ColumnOf("building_no", 1)
    /\ x.units[1].building_no = x.units[1].flat_no
    /\ x.units[1].flat_no # ""

---------------------------------------------------------------------------
(* attempt_data_recovery as a merge                                        *)

NoRecords(e) == e.exc # "" \/ e.units = <<>>

\* a scan of sheet k yields no metadata and no records
SheetYieldsNothing(k) ==
    /\ \A field \in {"project_name", "rera_number", "as_on_date"} :
          SheetYield(k, field) = ""
    /\ \A section \in SectionSet :
          NoRecords(extract_unit_data(ReadInfer(doc.sheets[k].raw), section, FALSE))

SameData(c) ==
    /\ project_name = c.project_name
    /\ rera_number = c.rera_number
    /\ as_on_date = c.as_on_date
    /\ unit_sections = c.unit_sections

SecondCallReturned == hist.again /\ pc \in {"create_again", "done"}

\* C21: a recovery pass over a document none of whose sheets yields
\* metadata or records leaves the metadata fields and the section lists as
\* they were on entry, and a second call of attempt_data_recovery right
\* after the first leaves the converter as the first call left it
C21_IdempotentMerge ==
    /\ hist.entered /\ (\A k \in 1..Len(doc.sheets) : SheetYieldsNothing(k))
          => SameData(hist.entry)
    /\ SecondCallReturned => Self = hist.entry

\* the first half: merge(a, empty) = a
MergeWithEmpty ==
    hist.entered /\ (\A k \in 1..Len(doc.sheets) : SheetYieldsNothing(k))
        => SameData(hist.entry)

\* the second half, for the documents none of whose sheets raises
IdempotentUnlessRaised ==
    SecondCallReturned /\ hist.raised = {} => Self = hist.entry

\* a pass over sheets that yield nothing, on a converter that holds data
EmptyMergeReached ==
    /\ hist.entered /\ sheet_i > Len(doc.sheets)
    /\ \A k \in 1..Len(doc.sheets) : SheetYieldsNothing(k)
    /\ project_name # ""

\* a second call that changed nothing, after a first call that did
SecondCallIdle ==
    /\ SecondCallReturned
    /\ Self = hist.entry
    /\ HasUnits(Self)
    /\ project_name # ""

---------------------------------------------------------------------------
(* The rows of a grid behind the records of its sections                   *)

\* the rows the row loop, ended in st, has turned into the records it
\* returns: the rows just above row_index
RowsBehind(st) ==
    IF st.status # "returned" THEN {}
    ELSE (st.row_index - Len(st.units))..(st.row_index - 1)

EmittedFrom(sheet_data, section, loc) ==
    IF loc.header_row_index = -1 THEN {}
    ELSE RowsBehind(RunRows(sheet_data, section, loc.col_mapping,
                            LoopStart(loc.data_start)))

\* the rows extract_unit_data turns into records of the section
EmittedRows(sheet_data, section) ==
    EmittedFrom(sheet_data, section, Locate(sheet_data, section, FALSE))

\* the call for x_section has returned its list
ListReturned == pc = "x_done" /\ x.status = "returned"

SharedRows(other) == RowsBehind(x) \cap EmittedRows(x_sheet, other)

\* C22: for one grid, the records of two different section labels come
\* from disjoint sets of rows: no row of the grid is emitted as a record
\* of the section extracted and also as a record of another section
C22_SectionsDisjoint ==
    ListReturned => \A other \in SectionSet \ {x_section} : SharedRows(other) = {}

\* the same for two sections under banners of their own, a blank row
\* between them
DisjointWhenSeparated ==
    ListReturned /\ x_sheet = ReadStr(SeparatedGrid) =>
        \A other \in SectionSet \ {x_section} : SharedRows(other) = {}

\* both sections of the separated grid yield their two records
SeparatedExtracted ==
    /\ ListReturned /\ x_sheet = ReadStr(SeparatedGrid)
    /\ Len(x.units) = 2
    /\ Cardinality(EmittedRows(x_sheet, "tenant")) = 2

\* the label "sold" has located a banner that reads "Unsold": its rows
\* are emitted as sold records and as unsold records
SoldInsideUnsold ==
    /\ ListReturned /\ x_section = "sold" /\ x.units # <<>>
    /\ x_sheet[1][1] = TxtCell("Unsold")
    /\ SharedRows("unsold") = RowsBehind(x)

\* the rows of the next section follow with numeric serials: the sold list
\* runs on into the rows the tenant list is made of
RunsIntoNextSection ==
    /\ ListReturned /\ x_section = "sold" /\ x_sheet = ReadStr(RunOnGrid)
    /\ SharedRows("tenant") # {}

---------------------------------------------------------------------------
(* The column map as a one-to-one assignment                               *)

MappedFields == DOMAIN x.col_mapping

\* C23: at every point of the scan over a header row the column map is
\* injective: no two fields hold the same column index, and every mapped
\* field holds the one index of a header scanned so far
C23_InjectiveColumnMap ==
    /\ \A f, g \in MappedFields :
           f # g => x.col_mapping[f] # x.col_mapping[g]
    /\ \A f \in MappedFields : x.col_mapping[f] \in 0..(x.i - 1)

\* a row of three headers is mapped to three fields, the first of them a
\* header that satisfies the rules of two fields
C23_Witness ==
    /\ x.i = 3
    /\ Satisfies("sr_no", x.headers[1])
    /\ Satisfies("flat_no", x.headers[1])
    /\ Cardinality(MappedFields) = 3

---------------------------------------------------------------------------
(* attempt_data_recovery never takes away what the converter holds         *)

\* converter b holds at least what converter a holds
Keeps(a, b) ==
    /\ a.project_name # "" => b.project_name # ""
    /\ a.rera_number # "" => b.rera_number # ""
    /\ a.as_on_date # "" => b.as_on_date # ""
    /\ \A section \in SectionSet :
           a.unit_sections[section] # <<>> =>
               Len(b.unit_sections[section]) >= Len(a.unit_sections[section])
    /\ a.include_building_column => b.include_building_column

\* the converter inside the scan of a sheet, after the metadata lines
\* (in meta) and after each of the sections from the n-th on, holds at
\* least what a holds
RECURSIVE KeptWithin(_, _, _, _)
KeptWithin(a, sheet_data, n, meta) ==
    /\ Keeps(a, meta.conv)
    /\ n <= Len(Sections) =>
           KeptWithin(a, sheet_data, n + 1,
                      RecoverNext(sheet_data, Sections[n], meta))

KeptWithinSheet(a, sheet_data) ==
    KeptWithin(a, sheet_data, 1, RecoverMetadata(sheet_data, Self))

ScanningSheet == pc = "recover_sheet" /\ sheet_i <= Len(doc.sheets)

\* C24: at every point during and after attempt_data_recovery, between the
\* sheets and inside the scan of a sheet, every metadata field that was
\* non-empty on entry is non-empty, every section that had records on entry
\* has at least as many, and include_building_column is true if it was
C24_RecoveryMonotone ==
    /\ hist.entered => Keeps(hist.entry, Self)
    /\ hist.entered /\ ScanningSheet =>
           KeptWithinSheet(hist.entry, ReadInfer(doc.sheets[sheet_i].raw))

\* the call has returned for a converter that held a project name, records
\* and a true flag on entry, and has added to it
C24_Witness ==
    /\ hist.entered /\ pc \in {"create_again", "done"}
    /\ hist.entry.project_name # ""
    /\ HasUnits(hist.entry)
    /\ hist.entry.include_building_column
    /\ Self # hist.entry

\* step by step: no step of the call resets the flag, empties a field or
\* shortens a list
StepwiseMonotone ==
    [][hist.entered => Keeps(Self, Self')]_vars

=============================================================================
